---- MODULE Spec2Model ----
(***************************************************************************)
(* Model of manageOSB.py: the undeploy workflow (undeploy_osb_prj with     *)
(* get_prj_details and discard_session), the two resource reapers          *)
(* (delete_queue, delete_work_manager) it cascades into, and the two       *)
(* toggle workflows (manage_proxy_services, proxy_services_monitoring).    *)
(*                                                                         *)
(* The remote side is modelled by what the script can observe of it:       *)
(*   - the OSB registry: the set of deployed projects and, per project,    *)
(*     the references getRefs returns;                                     *)
(*   - OSB configuration sessions (create / activate / discard);           *)
(*   - the WebLogic edit tree: startEdit / destroy / save / activate /     *)
(*     cancelEdit / undo, with three layers of destroyed objects           *)
(*     (unsaved, saved but not activated, committed).                      *)
(* Remote calls that the script guards with try/except may raise. Of the   *)
(* calls made inside the except handlers, discardSession and the logging   *)
(* calls are taken not to raise; undo and cancelEdit do not raise while    *)
(* the edit lock is held, and without the lock they raise or not as the    *)
(* server decides: both outcomes are explored. The connection is taken to  *)
(* stay up (findService, exists, lookups answer).                          *)
(***************************************************************************)
EXTENDS Integers, Sequences, FiniteSets, TLC

\* ------------------------------------------------------------------ bounds
MaxBatch == 3       \* most words (names, empty or blank words) on the line of names
MaxEndpoints == 2   \* references owned by all projects of the registry together
MaxFaults == 1      \* remote calls that raise, or concurrent deletions, per run
MaxPaths == 2       \* longest list of service paths typed at the prompt
MaxRuns == 2        \* times a toggle workflow is run in succession

\* ------------------------------------------------------------- input data
Names == {"P1", "P2"}

\* A URI is a sequence of tokens; "/" and "." are the separators split() acts
\* on, "jms:" followed by "/" "/" is the text "jms://".
UriA == <<"jms:", "/", "/", "h", "/", "a", ".", "Q1">>
UriB == <<"jms:", "/", "/", "h", "/", "Q1">>
UriC == <<"http:", "/", "/", "h", "/", "Q2">>
UriD == <<"jms:", "/", "/", "h", "/", "b", ".", "Q2">>
UriE == <<"jms:", "/", "/", "h", "/", "c", ".", "Q3">>
UriF == <<"jms:", "/", "/", "h", "/", "d", ".">>

Ref(n, t, u, w, bad) ==
    [fullName |-> n, typeId |-> t, uri |-> u, wm |-> w, malformed |-> bad]

\* The references a project may own (what getRefs yields, one by one).
EndpointRefs ==
    { Ref("prx/A", "ProxyService", UriA, "W1", FALSE),
      Ref("biz/B", "BusinessService", UriB, "default", FALSE),
      Ref("prx/C", "ProxyService", UriC, "W1", FALSE),
      Ref("biz/D", "BusinessService", UriD, "W2", FALSE),
      Ref("prx/E", "ProxyService", UriE, "W9", FALSE),
      Ref("prx/F", "ProxyService", UriF, "None", FALSE),
      Ref("biz/X", "BusinessService", UriA, "W1", TRUE) }

\* The references the projects of a batch run own.
BatchRefs ==
    { Ref("biz/D", "BusinessService", UriD, "W2", FALSE) }

\* The references of the runs that look at the discovery: one well-formed, one
\* whose extraction raises.
DiscoveryRefs ==
    { Ref("biz/D", "BusinessService", UriD, "W2", FALSE),
      Ref("biz/X", "BusinessService", UriA, "W1", TRUE) }

\* The references of the runs that look at the work-manager cascade: one with
\* a queue and a work manager the domain does not have, the others without a
\* queue and with a work manager, no name, or one of the sentinel names.
WmRefs ==
    { Ref("prx/E", "ProxyService", UriE, "W9", FALSE),
      Ref("prx/C", "ProxyService", UriC, "W1", FALSE),
      Ref("prx/L", "ProxyService", UriC, "W2", FALSE),
      Ref("biz/G", "BusinessService", UriC, "", FALSE),
      Ref("prx/H", "ProxyService", UriC, "SBDefaultResponseWorkManager", FALSE),
      Ref("prx/J", "ProxyService", UriC, "None", FALSE),
      Ref("biz/K", "BusinessService", UriC, "default", FALSE) }

\* The messaging modules of the domain, in cmo.JMSSystemResources order.
\* err maps a destination name to the name of its error destination.
JmsModules ==
    << [name |-> "M1",
        udq |-> {"Q1", "D1"},
        queue |-> {},
        err |-> [n \in {"Q1"} |-> "D1"],
        foreign |-> << [name |-> "FS1", dest |-> {"Q3"}],
                       [name |-> "FS2", dest |-> {"Q3"}] >>],
       [name |-> "M2",
        udq |-> {},
        queue |-> {"Q1", "Q2", "D2"},
        err |-> [n \in {"Q2"} |-> "D2"],
        foreign |-> << >>] >>

\* The work managers of the self-tuning container with their constraints
\* ("" = none attached).
WorkManagers ==
    [n \in {"W1", "W2"} |->
        IF n = "W1" THEN [maxtc |-> "W1max", mintc |-> "W1min"]
                    ELSE [maxtc |-> "", mintc |-> ""]]

\* What the user may type at a Y/N prompt.
Answers == {"Y", "y", "", "N"}

\* --------------------------------------------------------- pure functions
Max(S) == CHOOSE x \in S : \A y \in S : y <= x

RECURSIVE SeqsUpTo(_, _)
SeqsUpTo(S, n) ==
    IF n = 0 THEN {<<>>}
    ELSE LET shorter == SeqsUpTo(S, n - 1)
         IN shorter \cup {Append(s, x) : s \in shorter, x \in S}

\* a name of the batch that consists of white space only
Blank == "\t"

\* str.strip() on the names of the model
Strip(s) == IF s = Blank THEN "" ELSE s

\* str.upper() on the answers of the model
Upper(c) == IF c = "y" THEN "Y" ELSE IF c = "n" THEN "N" ELSE c

\* del_choice.upper() == "Y" or del_choice.strip() == ""
Confirmed(choice) == Upper(choice) = "Y" \/ choice = ""

\* s.split(sep)[-1]
SplitLast(s, sep) ==
    LET at == {k \in 1..Len(s) : s[k] = sep}
    IN IF at = {} THEN s ELSE SubSeq(s, Max(at) + 1, Len(s))

\* "jms://" in jms_uri
ContainsJms(uri) ==
    \E k \in 1..(Len(uri) - 2) :
        uri[k] = "jms:" /\ uri[k + 1] = "/" /\ uri[k + 2] = "/"

RECURSIVE Concat(_)
Concat(toks) == IF toks = <<>> THEN "" ELSE Head(toks) \o Concat(Tail(toks))

\* The paths typed at the prompt of the toggle workflows, as token sequences:
\* two proxy services that are deployed and one that is not.
PathA == <<"Prj", "/", "A">>
PathB == <<"Prj", "/", "B">>
PathN == <<"Prj", "/", "N">>
PathTokens == {PathA, PathB, PathN}

\* a path whose local name is the pattern "*": the query matches every proxy
\* service of the folder
PathW == <<"Prj", "/", "*">>
WildcardTokens == PathTokens \cup {PathW}

\* the proxy services the registry holds
Endpoints == {PathA, PathB}

\* a variant that answers a path it does not know with the first service; C33
\* must tell it from Refs
Refs_guess(path) ==
    IF path = PathW THEN <<PathA, PathB>>
    ELSE IF path \in Endpoints THEN <<path>> ELSE <<PathA>>

\* alsb_mbean.getRefs(query) for the local name and folder of a typed path
Refs(path) ==
    IF path = PathW THEN <<PathA, PathB>>
    ELSE IF path \in Endpoints THEN <<path>> ELSE <<>>

\* alsb_mbean.getEnvValue(ref, EnvValueTypes.SERVICE_URI, None)
ServiceUri(path) == IF path = PathA THEN "uriA" ELSE "uriB"

\* the text of a path, as the rows carry it
FullName(path) == Concat(path)

\* prx_full_name.split("/")[-1]
LocalName(path) == Concat(SplitLast(path, "/"))

\* The line typed at the prompt is a sequence of tokens: the tokens of the
\* paths and " " between, before or after them.
Min(S) == CHOOSE x \in S : \A y \in S : x <= y

\* s.split(sep): the fields between the separators, empty fields included
RECURSIVE SplitOn(_, _)
SplitOn(s, sep) ==
    LET at == {k \in 1..Len(s) : s[k] = sep}
    IN IF at = {} THEN <<s>>
       ELSE <<SubSeq(s, 1, Min(at) - 1)>> \o SplitOn(SubSeq(s, Min(at) + 1, Len(s)), sep)

\* s.strip() of a line: the white space (spaces, tabs) at both ends is dropped
RECURSIVE StripSpaces(_)
StripSpaces(s) ==
    IF s = <<>> THEN s
    ELSE IF Head(s) \in {" ", Blank} THEN StripSpaces(Tail(s))
    ELSE IF s[Len(s)] \in {" ", Blank} THEN StripSpaces(SubSeq(s, 1, Len(s) - 1))
    ELSE s

\* line 313: prx_full_names.split(" "); line 436: prx_full_names.strip().split(" ")
ParsePaths(wf, line) ==
    IF wf = "manage_proxy_services" THEN SplitOn(line, " ")
    ELSE SplitOn(StripSpaces(line), " ")

\* " ".join(paths)
RECURSIVE JoinPaths(_)
JoinPaths(paths) ==
    IF paths = <<>> THEN <<>>
    ELSE IF Len(paths) = 1 THEN paths[1]
    ELSE paths[1] \o <<" ">> \o JoinPaths(Tail(paths))

\* the lines a user may type: one to MaxPaths paths with one space between
\* them, and possibly a space before the first or after the last
TypedLines ==
    {lead \o JoinPaths(ps) \o trail :
        ps \in SeqsUpTo(PathTokens, MaxPaths) \ {<<>>},
        lead \in {<<>>, <<" ">>}, trail \in {<<>>, <<" ">>}}

\* The project names of undeploy_osb_prj reach it as one line: the arguments
\* joined with spaces (line 68) or the line typed at the prompt (line 70). A
\* word is one token; the empty word has none.
NamesLine(words) ==
    JoinPaths([k \in 1..Len(words) |-> IF words[k] = "" THEN <<>> ELSE <<words[k]>>])

\* lines 63-70: the line as the guard of line 72 sees it; only the typed line
\* is stripped
EnteredLine(standalone, line) == IF standalone THEN line ELSE StripSpaces(line)

\* line 79: prj_names.split(" ")
SplitNames(line) ==
    LET fields == SplitOn(line, " ")
    IN [k \in 1..Len(fields) |-> Concat(fields[k])]

\* int(action.strip()): 1 enables, any other number takes the disable branch
Actions == {0, 1, 2}

Workflows == {"manage_proxy_services", "proxy_services_monitoring"}

\* what the user types as activation comment when asked
TypedComment == "typed"

\* str(n) for the counts of the model
ToStr(n) ==
    CASE n = 0 -> "0" [] n = 1 -> "1" [] n = 2 -> "2" [] n = 3 -> "3" [] OTHER -> "4"

\* jms_uri.split("/")[-1].split(".")[-1]
QueueNameOf(uri) == Concat(SplitLast(SplitLast(uri, "/"), "."))

\* lines 164-172: the queue names of the rows whose URI contains jms://
RECURSIVE JmsQueues(_)
JmsQueues(rows) ==
    IF rows = <<>> THEN <<>>
    ELSE LET uri == Head(rows)[3]
         IN IF uri # <<>> /\ ContainsJms(uri)
            THEN <<QueueNameOf(uri)>> \o JmsQueues(Tail(rows))
            ELSE JmsQueues(Tail(rows))

\* lines 197-201: the work-manager names of the rows, sentinels left out
RECURSIVE WmNames(_)
WmNames(rows) ==
    IF rows = <<>> THEN <<>>
    ELSE LET wm == Head(rows)[4]
         IN IF wm # "" /\ wm \notin {"SBDefaultResponseWorkManager", "None", "default"}
            THEN <<wm>> \o WmNames(Tail(rows))
            ELSE WmNames(Tail(rows))

\* lines 175-178 and 204-207: keep the first occurrence of each name
RECURSIVE UniqueFrom(_, _)
UniqueFrom(names, seen) ==
    IF names = <<>> THEN seen
    ELSE IF \E k \in 1..Len(seen) : seen[k] = Head(names)
         THEN UniqueFrom(Tail(names), seen)
         ELSE UniqueFrom(Tail(names), Append(seen, Head(names)))

Unique(names) == UniqueFrom(names, <<>>)

\* One row of the project details report: [full name, enabled, uri, work manager]
RowOf(ref) == <<ref.fullName, 1, ref.uri, ref.wm>>

\* lines 268-284: the loop over the references of the project; a reference whose
\* attribute or markup extraction raises ends the loop with the rows built so far
RECURSIVE CollectRows(_, _)
CollectRows(refs, acc) ==
    IF refs = <<>> THEN [raised |-> FALSE, rows |-> acc]
    ELSE LET r == Head(refs)
         IN IF r.typeId \notin {"ProxyService", "BusinessService"}
            THEN CollectRows(Tail(refs), acc)
            ELSE IF r.malformed
                 THEN [raised |-> TRUE, rows |-> acc]
                 ELSE CollectRows(Tail(refs), Append(acc, RowOf(r)))

\* ------------------------------------------------------------------ state
VARIABLES
    is_standalone,   \* started with arguments: every prompt is answered "Y"
    prj_names,       \* the batch: [] (line 61), then the list of line 79
    projects,        \* registry: names of the deployed projects
    prjRefs,         \* registry: project name -> its references
    pc,              \* position in undeploy_osb_prj / the reaper it called
    i,               \* index of the project being processed
    prj_details_report, \* result of get_prj_details for the current project
    sessions,        \* configuration sessions created so far, by number
    report,          \* rows appended so far
    rendered,        \* what create_report was given at the end, sorted
    jms_queues_unique, qi, \* the queue cascade of the current project
    wm_names_unique, wi,   \* the work-manager cascade of the current project
    queue_name, queues_report, is_queue_found, mi, fi, \* locals of delete_queue
    editOpen,        \* this user holds the edit lock
    unsaved, saved, committed, \* objects destroyed: in the edit, saved, activated
    faults,          \* disturbances injected so far
    calls,           \* history: remote calls and prompts, in order
    hist,            \* history: one record per project position processed
    dq_hist,         \* history: the latest delete_queue call
    workflow,        \* the toggle workflow that runs, "" when none does
    typed,           \* the line entered (names or paths), as tokens
    action,          \* int(action.strip()) of the toggle workflow
    prx_full_names,  \* the paths, after split(" ")
    mod_prx_cnt, prx_full_names_cnt, \* locals of the toggle workflow
    coreFlag,        \* registry: service -> the flag (state or monitoring), activated
    sessFlag,        \* the same flag as the open session sees it
    run,             \* number of the run of the toggle workflow
    tg_hist          \* history: one record per run of the toggle workflow

vars == << is_standalone, prj_names, projects, prjRefs, pc, i, prj_details_report,
           sessions, report, rendered, jms_queues_unique, qi, wm_names_unique, wi,
           queue_name, queues_report, is_queue_found, mi, fi,
           editOpen, unsaved, saved, committed, faults, calls, hist, dq_hist,
           workflow, typed, action, prx_full_names, mod_prx_cnt, prx_full_names_cnt,
           coreFlag, sessFlag, run, tg_hist >>

inputVars == << is_standalone, prj_names, prjRefs >>
queueLocals == << queue_name, queues_report, is_queue_found, mi, fi >>
editVars == << editOpen, unsaved, saved, committed >>
cascadeVars == << jms_queues_unique, qi, wm_names_unique, wi >>
toggleInputs == << workflow, typed, action, prx_full_names >>
toggleVars == << toggleInputs, mod_prx_cnt, prx_full_names_cnt, coreFlag, sessFlag, run,
                 tg_hist >>
undeployVars == << prj_names, projects, prjRefs, prj_details_report, cascadeVars,
                   queueLocals, editVars, hist, dq_hist >>


\* ------------------------------------------------------------- the report
\* The strings report rows are made of, in the order Python compares them.
StrOrder ==
    << "", "D1", "D2", "DMQ", "Deleted", "Disabled", "Disabled*", "Enabled", "Enabled*",
       "Failed", "ForeignDestination", "MaxThreadsConstraint", "MinThreadsConstraint",
       "N/A", "Not found", "OSB project", "P1", "P2", "Prj/*", "Prj/A", "Prj/B", "Prj/N",
       "Project is empty", "Q1", "Q2", "Q3", "Q9", "Queue", "Skipped",
       "Skipped by user", "UniformDistributedQueue", "W1", "W1max", "W1min", "W2",
       "W9", "Work manager", "default", "uriA", "uriB" >>

Rank(s) == CHOOSE k \in 1..Len(StrOrder) : StrOrder[k] = s

\* list comparison of two rows of three strings
RowLess(r, s) ==
    \/ Rank(r[1]) < Rank(s[1])
    \/ r[1] = s[1] /\ Rank(r[2]) < Rank(s[2])
    \/ r[1] = s[1] /\ r[2] = s[2] /\ Rank(r[3]) < Rank(s[3])

RECURSIVE InsertRow(_, _)
InsertRow(row, sorted) ==
    IF sorted = <<>> THEN <<row>>
    ELSE IF RowLess(row, Head(sorted)) THEN <<row>> \o sorted
         ELSE <<Head(sorted)>> \o InsertRow(row, Tail(sorted))

\* report_str.sort() of create_report (is_sorted=True)
RECURSIVE SortRows(_)
SortRows(rows) ==
    IF rows = <<>> THEN <<>>
    ELSE InsertRow(rows[Len(rows)], SortRows(SubSeq(rows, 1, Len(rows) - 1)))

\* ---------------------------------------------------------------- history
Ev(op, a, b) == [op |-> op, i |-> i, a |-> a, b |-> b]

\* what a lookup event records of its result
Found(b) == IF b THEN "found" ELSE ""

\* ---------------------------------------------------- configuration sessions
NewSession(p) == [i |-> i, prj |-> p, state |-> "Open", mutations |-> 0]

\* session_mbean.sessionExists(session_name)
sessionExists(ss, name) == name \in 1..Len(ss) /\ ss[name].state = "Open"

\* a variant that discards nothing; C21 must tell it from discard_session
discard_session_noop(ss, name) == ss

\* discard_session: discards the session if it still exists
discard_session(ss, name) ==
    IF sessionExists(ss, name) THEN [ss EXCEPT ![name].state = "Discarded"] ELSE ss

\* ------------------------------------------------------------ the edit tree
UDQ == "UniformDistributedQueue"

Gone(st) == st.unsaved \cup st.saved \cup st.committed

EditState ==
    [open |-> editOpen, unsaved |-> unsaved, saved |-> saved, committed |-> committed,
     rows |-> <<>>, calls |-> <<>>, raised |-> FALSE, rejects |-> FALSE]

\* The edit state for a server that refuses (rejects) undo and cancelEdit from
\* a client that does not hold the edit lock. Whether WebLogic does so is not
\* settled by the repository: every step takes either answer.
Refusing(st, rejects) == [st EXCEPT !.rejects = rejects]

\* cmo.lookupUniformDistributedQueue(queue_name) in module m
lookupUniformDistributedQueue(st, m, name) ==
    name \in JmsModules[m].udq /\ <<JmsModules[m].name, UDQ, name>> \notin Gone(st)

\* cmo.lookupQueue(queue_name) in module m
lookupQueue(st, m, name) ==
    name \in JmsModules[m].queue /\ <<JmsModules[m].name, "Queue", name>> \notin Gone(st)

\* frn_srv.lookupForeignDestination(queue_name), foreign server k of module m
lookupForeignDestination(st, m, k, name) ==
    /\ name \in JmsModules[m].foreign[k].dest
    /\ <<JmsModules[m].foreign[k].name, "ForeignDestination", name>> \notin Gone(st)

\* queue_bean.getDeliveryFailureParams().getErrorDestination(): the bean of the
\* error destination, <<>> when none is configured
getErrorDestination(st, m, name) ==
    IF name \notin DOMAIN JmsModules[m].err THEN <<>>
    ELSE LET d == JmsModules[m].err[name]
             k == IF d \in JmsModules[m].udq THEN UDQ ELSE "Queue"
         IN IF <<JmsModules[m].name, k, d>> \in Gone(st) THEN <<>>
            ELSE <<JmsModules[m].name, k, d>>

\* getMBean(wm_name) under /SelfTuning/<domain>/WorkManagers
getMBean(st, name) ==
    name \in DOMAIN WorkManagers /\ <<"SelfTuning", "WorkManager", name>> \notin Gone(st)

\* cancelEdit("y"): releases the lock and drops the unsaved changes; without
\* the lock a refusing server raises and nothing changes
cancelEdit(st) ==
    IF ~st.open /\ st.rejects
    THEN [st EXCEPT !.raised = TRUE,
                    !.calls = Append(st.calls, Ev("cancelEdit", "", "raised"))]
    ELSE [st EXCEPT !.open = FALSE, !.unsaved = {},
                    !.calls = Append(st.calls, Ev("cancelEdit", "", ""))]

\* undo("true", "y"): reverts the unsaved and the saved, unactivated changes;
\* without the lock a refusing server raises and nothing changes
undo(st) ==
    IF ~st.open /\ st.rejects
    THEN [st EXCEPT !.raised = TRUE,
                    !.calls = Append(st.calls, Ev("undo", "", "raised"))]
    ELSE [st EXCEPT !.unsaved = {}, !.saved = {},
                    !.calls = Append(st.calls, Ev("undo", "", ""))]

\* One call on the edit tree. A call raises when the fault of this run hits it,
\* and a destroy, save or activate raises without the edit lock.
\*   startEdit: takes the lock (the same user may take it again)
\*   destroy:   removes s.obj in the edit, then the code appends s.row (if any)
\*   row:       the code appends s.row
\*   promptY/N: raw_input when the run is interactive, and what was decided
\*   save:      the unsaved changes become saved
\*   activate:  the saved changes are committed and the lock is released
Step(op, f, obj, row) == [op |-> op, f |-> f, obj |-> obj, row |-> row]

Apply(s, fault, st) ==
    LET ev == IF s.op = "row" \/ (s.op \in {"promptY", "promptN"} /\ is_standalone)
              THEN st.calls
              ELSE IF s.op \in {"promptY", "promptN"}
              THEN Append(st.calls,
                          Ev("prompt", s.obj[3], IF s.op = "promptY" THEN "Y" ELSE "N"))
              ELSE Append(st.calls,
                          Ev(s.op, IF s.obj = <<>> THEN "" ELSE s.obj[2],
                                   IF s.obj = <<>> THEN "" ELSE s.obj[3]))
        raises == \/ s.f # "none" /\ s.f = fault
                  \/ s.op \in {"destroy", "save", "activate"} /\ ~st.open
        addRow == IF s.row = <<>> THEN st.rows ELSE Append(st.rows, s.row)
    IN IF raises THEN [st EXCEPT !.calls = ev, !.raised = TRUE]
       ELSE IF s.op = "startEdit" THEN [st EXCEPT !.calls = ev, !.open = TRUE]
       ELSE IF s.op = "destroy"
            THEN [st EXCEPT !.calls = ev, !.rows = addRow,
                            !.unsaved = st.unsaved \cup {s.obj}]
       ELSE IF s.op = "save"
            THEN [st EXCEPT !.calls = ev, !.saved = st.saved \cup st.unsaved,
                            !.unsaved = {}]
       ELSE IF s.op = "activate"
            THEN [st EXCEPT !.calls = ev, !.committed = st.committed \cup st.saved,
                            !.saved = {}, !.open = FALSE]
       ELSE [st EXCEPT !.calls = ev, !.rows = addRow]

\* the step of a prompt that returned answer
AnswerOp(answer) == IF Confirmed(answer) THEN "promptY" ELSE "promptN"

\* The calls of a try block in order, up to the first one that raises.
RECURSIVE Run(_, _, _)
Run(steps, fault, st) ==
    IF steps = <<>> THEN st
    ELSE LET st1 == Apply(Head(steps), fault, st)
         IN IF st1.raised THEN st1 ELSE Run(Tail(steps), fault, st1)

\* The fault labels a sequence of steps can be hit by.
FaultsOf(steps) == {steps[k].f : k \in 1..Len(steps)} \ {"none"}


\* ------------------------------------------------------------ get_prj_details
\* a variant without the exists test of line 264
\* The result is the text "Not found", the text "Empty", or a list of rows; tag
\* tells which. After a reference raised, the except clause returns the list
\* built so far (possibly empty) and the result is a list.
get_prj_details_noExists(prj_name, answer) ==
    LET c == CollectRows(IF prj_name \in Names THEN prjRefs[prj_name] ELSE <<>>, <<>>)
    IN IF c.raised \/ c.rows # <<>>
       THEN [tag |-> "list", rows |-> c.rows, logged |-> c.raised]
       ELSE [tag |-> "Empty", rows |-> <<>>, logged |-> FALSE]

\* a variant that answers "Not found" for a project without references; C26
\* must tell it from get_prj_details
get_prj_details_emptyNotFound(prj_name, answer) ==
    IF prj_name \notin projects \/ prjRefs[prj_name] = <<>>
    THEN [tag |-> "Not found", rows |-> <<>>, logged |-> FALSE]
    ELSE get_prj_details_noExists(prj_name, answer)

\* answer is what the user types when the name is empty (lines 248-252): the
\* stripped answer is the name looked up, and an empty one raises ValueError
\* ("raised"). logged tells that the except clause logged an ERROR (line 292).
get_prj_details(prj_name, answer) ==
    LET name == IF prj_name = "" THEN Strip(answer) ELSE prj_name
    IN IF name = ""
       THEN [tag |-> "raised", rows |-> <<>>, logged |-> FALSE]
       ELSE IF name \notin projects
       THEN [tag |-> "Not found", rows |-> <<>>, logged |-> FALSE]
       ELSE LET c == CollectRows(prjRefs[name], <<>>)
            IN IF c.raised \/ c.rows # <<>>
               THEN [tag |-> "list", rows |-> c.rows, logged |-> c.raised]
               ELSE [tag |-> "Empty", rows |-> <<>>, logged |-> FALSE]

\* What the user may type when get_prj_details asks for a name.
NameAnswers == Names \cup {"", Blank}

\* ----------------------------------------------------------------- inputs
\* What a prompt returns: standalone runs never prompt and take "Y".
Prompt == IF is_standalone THEN {"Y"} ELSE Answers

\* the same for a prompt that is reached only when asked holds
PromptIf(asked) == IF asked THEN Prompt ELSE {"Y"}

\* The fault of a step: none, or one of the labels while the budget lasts.
FaultChoices(labels) == IF faults < MaxFaults THEN labels \cup {"none"} ELSE {"none"}

\* The lines of up to MaxBatch words each of which is one of S.
Lines(S) == {NamesLine(words) : words \in SeqsUpTo(S, MaxBatch)}

\* the words of a line
WordsOf(line) == {line[k] : k \in 1..Len(line)}

RECURSIVE TotalRefs(_, _)
TotalRefs(f, S) ==
    IF S = {} THEN 0
    ELSE LET p == CHOOSE x \in S : TRUE IN Len(f[p]) + TotalRefs(f, S \ {p})

\* Nothing has been done yet: no session, no edit, no row, no history.
RunStart ==
    /\ i = 1
    /\ prj_details_report = [tag |-> "", rows |-> <<>>, logged |-> FALSE]
    /\ sessions = <<>>
    /\ report = <<>>
    /\ rendered = <<>>
    /\ jms_queues_unique = <<>> /\ qi = 1
    /\ wm_names_unique = <<>> /\ wi = 1
    /\ queue_name = "" /\ queues_report = <<>> /\ is_queue_found = FALSE
    /\ mi = 1 /\ fi = 1
    /\ editOpen = FALSE /\ unsaved = {} /\ saved = {} /\ committed = {}
    /\ faults = 0
    /\ calls = <<>>
    /\ hist = <<>>
    /\ dq_hist = [name |-> "", entry |-> {}, rows |-> <<>>, returned |-> FALSE]

\* no toggle workflow runs
ToggleIdle ==
    /\ workflow = "" /\ action = 0 /\ prx_full_names = <<>>
    /\ mod_prx_cnt = 0 /\ prx_full_names_cnt = 0
    /\ coreFlag = [e \in Endpoints |-> FALSE] /\ sessFlag = coreFlag
    /\ run = 0
    /\ tg_hist = <<>>

\* The state when undeploy_osb_prj is entered (line 61).
InitRun ==
    /\ pc = "begin"
    /\ prj_names = <<>>
    /\ RunStart
    /\ ToggleIdle

\* Lines of up to MaxBatch names or empty words over a registry whose projects own references
\* of BatchRefs, at most MaxEndpoints in all. Projects the batch does not name
\* play no part in the run and are left out of the registry.
Init ==
    /\ is_standalone \in BOOLEAN
    /\ typed \in Lines(Names \cup {""})
    /\ projects \in SUBSET (Names \cap WordsOf(typed))
    /\ prjRefs \in [Names -> SeqsUpTo(BatchRefs, MaxEndpoints)]
    /\ TotalRefs(prjRefs, Names) <= MaxEndpoints
    /\ \A p \in Names \ projects : prjRefs[p] = <<>>
    /\ InitRun

\* Lines over P1 and a blank word; P1 is deployed and owns up to
\* MaxEndpoints references of DiscoveryRefs.
InitDiscovery ==
    /\ is_standalone \in BOOLEAN
    /\ typed \in Lines({"P1", Blank})
    /\ projects = {"P1"}
    /\ \E refs \in SeqsUpTo(DiscoveryRefs, MaxEndpoints) :
          prjRefs = [p \in Names |-> IF p = "P1" THEN refs ELSE <<>>]
    /\ InitRun

\* One deployed project that owns any sequence of up to MaxEndpoints references
\* of EndpointRefs.
InitCascade ==
    /\ is_standalone \in BOOLEAN
    /\ typed = NamesLine(<<"P1">>)
    /\ projects = {"P1"}
    /\ \E refs \in SeqsUpTo(EndpointRefs, MaxEndpoints) :
          prjRefs = [p \in Names |-> IF p = "P1" THEN refs ELSE <<>>]
    /\ InitRun

\* One deployed project that owns any sequence of up to MaxEndpoints references
\* of WmRefs.
InitWorkManagers ==
    /\ is_standalone \in BOOLEAN
    /\ typed = NamesLine(<<"P1">>)
    /\ projects = {"P1"}
    /\ \E refs \in SeqsUpTo(WmRefs, MaxEndpoints) :
          prjRefs = [p \in Names |-> IF p = "P1" THEN refs ELSE <<>>]
    /\ InitRun

\* ------------------------------------------------------- undeploy_osb_prj
\* Lines 61-85: the names are taken from the arguments or typed. Without a
\* name the standalone run raises ValueError (line 74) and the interactive one
\* logs an ERROR and returns (lines 76-77); else the line is split (line 79).
U_Begin ==
    /\ pc = "begin"
    /\ LET line == EnteredLine(is_standalone, typed)
       IN IF line = <<>>
          THEN /\ pc' = IF is_standalone THEN "exception" ELSE "returned"
               /\ calls' = IF is_standalone THEN calls
                            ELSE Append(calls, [op |-> "log_error", i |-> 0,
                                                a |-> "", b |-> ""])
               /\ UNCHANGED prj_names
          ELSE /\ prj_names' = SplitNames(line)
               /\ pc' = "loop"
               /\ UNCHANGED calls
    /\ UNCHANGED << toggleVars, is_standalone, prjRefs, projects, i, prj_details_report,
                    sessions, report, rendered, cascadeVars, queueLocals, editVars, faults,
                    hist, dq_hist >>

\* Top of the for loop (lines 86-114): skip an empty name, else discover the
\* dependency set and branch on the result. A name that is empty once stripped
\* makes get_prj_details ask for a name (line 249); an empty answer raises
\* ValueError (line 252) and the except clause of lines 97-100 returns from
\* the workflow, any other answer is looked up while the loop goes on with the
\* empty name. An extraction that raised has logged its ERROR (line 292) by the
\* time get_prj_details returns.
U_Discover ==
    /\ pc = "loop"
    /\ i <= Len(prj_names)
    /\ \E answer \in (IF Strip(prj_names[i]) = "" /\ prj_names[i] # ""
                       THEN NameAnswers ELSE {""}) :
       LET prj_name == Strip(prj_names[i])
           d == get_prj_details(prj_name, answer)
           h == [prj |-> prj_name, existed |-> prj_name \in projects,
                 refs |-> IF prj_name \in Names THEN prjRefs[prj_name] ELSE <<>>,
                 tag |-> d.tag, rows |-> d.rows, from |-> Len(report), fault |-> "none"]
           logged == IF d.logged THEN << Ev("log_error", prj_name, "") >> ELSE <<>>
       IN IF prj_names[i] = ""
          THEN /\ i' = i + 1
               /\ hist' = Append(hist, [h EXCEPT !.tag = "", !.rows = <<>>])
               /\ UNCHANGED << pc, prj_details_report, report, calls >>
          ELSE IF d.tag = "raised"
          THEN /\ hist' = Append(hist, h)
               /\ calls' = calls \o << Ev("get_prj_details", prj_name, "raised"),
                                       Ev("log_error", prj_name, "") >>
               /\ pc' = "returned"
               /\ UNCHANGED << i, prj_details_report, report >>
          ELSE /\ hist' = Append(hist, h)
               /\ prj_details_report' = d
               /\ IF d.tag = "Not found"
                  THEN /\ report' = Append(report, <<"OSB project", prj_name, "Not found">>)
                       /\ i' = i + 1
                       /\ calls' = Append(calls, Ev("get_prj_details", prj_name, d.tag))
                       /\ pc' = pc
                  ELSE IF d.tag = "Project is empty"
                  THEN /\ report' = Append(report,
                                           <<"OSB project", prj_name, "Project is empty">>)
                       /\ calls' = Append(calls, Ev("get_prj_details", prj_name, d.tag))
                       /\ pc' = "session"
                       /\ i' = i
                  ELSE /\ calls' = calls \o logged
                                         \o << Ev("get_prj_details", prj_name, d.tag),
                                               Ev("create_report", prj_name, "details") >>
                       /\ pc' = "session"
                       /\ UNCHANGED << report, i >>
    /\ UNCHANGED << toggleVars, inputVars, projects, sessions, rendered, cascadeVars, queueLocals,
                    editVars, faults, dq_hist >>

\* Lines 116-158: the session of one project. The project may have been deleted
\* by another actor since the discovery ("race"); createSession, delete and
\* activateSession may raise.
SessionCalls(prj_name, sname, exists, yes, fault) ==
    << Ev("createSession", prj_name, "") >>
    \o (IF fault = "createSession" THEN <<>>
        ELSE << Ev("exists", prj_name, "") >>
             \o (IF exists /\ ~is_standalone
                 THEN << Ev("prompt", prj_name, IF yes THEN "Y" ELSE "N") >> ELSE <<>>)
             \o (IF ~exists \/ ~yes THEN <<>>
                 ELSE << Ev("delete", prj_name, "") >>
                      \o (IF fault = "delete" THEN <<>>
                          ELSE << Ev("activateSession", prj_name, "") >>)))

\* the except clause, lines 150-158
SessionHandlerCalls(ss, sname, prj_name) ==
    << Ev("log_error", prj_name, "") >>
    \o (IF sessionExists(ss, sname) THEN << Ev("discardSession", prj_name, "") >> ELSE <<>>)

\* a variant whose except clause leaves the session alone; C4 must tell it
\* from SessionAfterFailure
SessionAfterFailure_keep(ss, sname) == ss

\* the sessions after the except clause ran
SessionAfterFailure(ss, sname) == discard_session(ss, sname)

\* the sessions after the user declined the deletion (lines 140-143)
SessionAfterDecline(ss, sname) == ss

\* the sessions after the project was not found in the session (lines 144-148)
SessionAfterNotFound(ss, sname) == ss

\* a variant that always goes on to the cascade; C3 must tell it from
\* AfterSession
AfterSession_always(deleted) == "cascade"

\* the position after the session block: the cascade follows a deletion only
AfterSession(deleted) == IF deleted THEN "cascade" ELSE "loop"

U_Session ==
    /\ pc = "session"
    /\ \E answer \in Prompt,
          fault \in FaultChoices({"race", "createSession", "delete", "activateSession"}) :
        LET prj_name == Strip(prj_names[i])
            sname == Len(sessions) + 1
            created == Append(sessions, NewSession(prj_name))
            registry == IF fault = "race" THEN projects \ {prj_name} ELSE projects
            exists == prj_name \in registry
            yes == Confirmed(answer)
            failed == \/ fault = "createSession"
                      \/ exists /\ yes /\ fault \in {"delete", "activateSession"}
            deleted == exists /\ yes /\ ~failed
            mutated == [created EXCEPT ![sname].mutations = 1]
            tried == IF fault = "createSession" THEN sessions
                     ELSE IF fault = "delete" THEN created ELSE mutated
            row == IF failed THEN "Failed"
                   ELSE IF ~exists THEN "Not found"
                   ELSE IF ~yes THEN "Skipped by user" ELSE "Deleted"
        IN /\ fault \in {"delete", "activateSession"} => exists /\ yes
           /\ fault = "race" => prj_name \in projects
           /\ faults' = IF fault = "none" THEN faults ELSE faults + 1
           /\ sessions' =
                IF failed THEN SessionAfterFailure(tried, sname)
                ELSE IF ~exists THEN SessionAfterNotFound(created, sname)
                ELSE IF ~yes THEN SessionAfterDecline(created, sname)
                ELSE [mutated EXCEPT ![sname].state = "Activated"]
           /\ projects' = IF deleted THEN registry \ {prj_name} ELSE registry
           /\ report' = Append(report, <<"OSB project", prj_name, row>>)
           /\ calls' = calls \o SessionCalls(prj_name, sname, exists, yes, fault)
                             \o (IF failed THEN SessionHandlerCalls(tried, sname, prj_name)
                                 ELSE <<>>)
           /\ hist' = [hist EXCEPT ![i].fault = fault]
           /\ pc' = AfterSession(deleted)
           /\ i' = IF AfterSession(deleted) = "loop" THEN i + 1 ELSE i
    /\ UNCHANGED << toggleVars, inputVars, prj_details_report, rendered, cascadeVars, queueLocals,
                    editVars, dq_hist >>

\* a variant that asks the registry again when the cascade starts; C6 must
\* tell it from SnapshotRows
SnapshotRows_requery == get_prj_details(Strip(prj_names[i]), "").rows

\* the rows the cascade reads: prj_details_report as it was returned for the
\* project at the top of the loop body
SnapshotRows == prj_details_report.rows

\* Lines 162-178: the cascade starts only from a non-empty list; the unique
\* queue names come from the rows of the snapshot.
U_Cascade ==
    /\ pc = "cascade"
    /\ IF prj_details_report.tag = "list" /\ SnapshotRows # <<>>
       THEN /\ jms_queues_unique' = Unique(JmsQueues(SnapshotRows))
            /\ qi' = 1
            /\ pc' = "queue_loop"
            /\ i' = i
       ELSE /\ pc' = "loop"
            /\ i' = i + 1
            /\ UNCHANGED << jms_queues_unique, qi >>
    /\ UNCHANGED << toggleVars, inputVars, projects, prj_details_report, sessions, report, rendered,
                    wm_names_unique, wi, queueLocals, editVars, faults, calls, hist, dq_hist >>


\* ---------------------------------------------------------------- delete_queue
SetEdit(st) ==
    /\ editOpen' = st.open
    /\ unsaved' = st.unsaved
    /\ saved' = st.saved
    /\ committed' = st.committed

\* the edit state a try block of delete_queue starts from
QueueState == [EditState EXCEPT !.rows = queues_report]

\* the except clause of delete_queue, lines 967-974. undo (line 971) and
\* cancelEdit (line 972) are outside any try: when one of them raises, the
\* exception leaves delete_queue (raised stays TRUE) before the Failed row of
\* line 973 is appended.
QueueHandler(st, name) ==
    LET logged == [st EXCEPT !.raised = FALSE,
                             !.calls = Append(st.calls, Ev("log_error", name, ""))]
        undone == undo(logged)
        cancelled == IF undone.raised THEN undone ELSE cancelEdit(undone)
    IN IF cancelled.raised THEN cancelled
       ELSE [cancelled EXCEPT !.rows = Append(cancelled.rows, <<"Queue", name, "Failed">>)]

\* a variant that reports Skipped without cancelEdit; C10 must tell it from
\* QueueDeclined
QueueDeclined_noCancel(st, typ, name) ==
    [st EXCEPT !.rows = Append(st.rows, <<typ, name, "Skipped">>)]

\* lines 844-847, 905-909, 950-953: the user declined the deletion of the
\* match; the Skipped row is appended, then cancelEdit is called inside the try
QueueDeclined(st, typ, name) ==
    cancelEdit([st EXCEPT !.rows = Append(st.rows, <<typ, name, "Skipped">>)])

\* whether the search over the modules goes on after a declined match
ContinuesAfterDecline == TRUE

\* a variant that reports Not found and keeps the edit; C31 must tell it from
\* QueueNotFound
QueueNotFound_noCancel(st, name) ==
    [st EXCEPT !.rows = Append(st.rows, <<"Queue", name, "Not found">>)]

\* lines 960-963: nothing matched in any module
QueueNotFound(st, name) ==
    LET cancelled == cancelEdit(st)
    IN [cancelled EXCEPT !.rows = Append(st.rows, <<"Queue", name, "Not found">>)]

\* a variant that reads the error destination once the primary destination
\* is destroyed; C30 must tell it from QueueDeleteSteps
QueueDeleteSteps_readAfter(bean, dmq, yesDmq) ==
    << Step("destroy", "destroy", bean, <<>>),
       Step("getErrorDestination", "none", bean, <<>>) >>
    \o (IF dmq = <<>> THEN <<>>
        ELSE IF yesDmq
             THEN << Step("promptY", "none", dmq, <<>>),
                     Step("destroy", "destroyDmq", dmq, <<>>) >>
             ELSE << Step("promptN", "none", dmq, <<>>),
                     Step("row", "none", <<>>, <<"DMQ", dmq[3], "Skipped">>) >>)
    \o << Step("save", "save", <<>>, <<>>),
          Step("activate", "activate", <<>>, <<>>),
          Step("row", "none", <<>>, <<bean[2], bean[3], "Deleted">>) >>
    \o (IF dmq # <<>> /\ yesDmq
        THEN << Step("row", "none", <<>>, <<"DMQ", dmq[3], "Deleted">>) >>
        ELSE <<>>)

\* a variant that destroys the error destination whatever the answer; C9 must
\* tell it from QueueDeleteSteps
QueueDeleteSteps_destroyDmq(bean, dmq, yesDmq) ==
    << Step("getErrorDestination", "none", bean, <<>>),
       Step("destroy", "destroy", bean, <<>>) >>
    \o (IF dmq = <<>> THEN <<>>
        ELSE << Step(IF yesDmq THEN "promptY" ELSE "promptN", "none", dmq, <<>>),
                Step("destroy", "destroyDmq", dmq, <<>>) >>
             \o (IF yesDmq THEN <<>>
                 ELSE << Step("row", "none", <<>>, <<"DMQ", dmq[3], "Skipped">>) >>))
    \o << Step("save", "save", <<>>, <<>>),
          Step("activate", "activate", <<>>, <<>>),
          Step("row", "none", <<>>, <<bean[2], bean[3], "Deleted">>) >>
    \o (IF dmq # <<>> /\ yesDmq
        THEN << Step("row", "none", <<>>, <<"DMQ", dmq[3], "Deleted">>) >>
        ELSE <<>>)

\* lines 801-842 and 863-903: the confirmed deletion of a distributed or plain
\* queue; yesDmq is the answer to the prompt for its error destination
QueueDeleteSteps(bean, dmq, yesDmq) ==
    << Step("getErrorDestination", "none", bean, <<>>),
       Step("destroy", "destroy", bean, <<>>) >>
    \o (IF dmq = <<>> THEN <<>>
        ELSE IF yesDmq
             THEN << Step("promptY", "none", dmq, <<>>),
                     Step("destroy", "destroyDmq", dmq, <<>>) >>
             ELSE << Step("promptN", "none", dmq, <<>>),
                     Step("row", "none", <<>>, <<"DMQ", dmq[3], "Skipped">>) >>)
    \o << Step("save", "save", <<>>, <<>>),
          Step("activate", "activate", <<>>, <<>>),
          Step("row", "none", <<>>, <<bean[2], bean[3], "Deleted">>) >>
    \o (IF dmq # <<>> /\ yesDmq
        THEN << Step("row", "none", <<>>, <<"DMQ", dmq[3], "Deleted">>) >>
        ELSE <<>>)

\* lines 932-947: the confirmed deletion of a foreign destination
ForeignDeleteSteps(bean) ==
    << Step("destroy", "destroy", bean, <<>>),
       Step("save", "save", <<>>, <<>>),
       Step("activate", "activate", <<>>, <<>>),
       Step("row", "none", <<>>, <<"ForeignDestination", bean[3], "Deleted">>) >>

\* the object type of the Skipped row of a declined distributed or plain queue
SkippedType(kind) == UDQ

\* return to undeploy_osb_prj, lines 183-186: the rows are appended to the report
QueueReturn(st, name) ==
    /\ SetEdit(st)
    /\ report' = report \o st.rows
    /\ calls' = calls \o st.calls \o << Ev("delete_queue_return", name, "") >>
    /\ qi' = qi + 1
    /\ pc' = "queue_loop"
    /\ queue_name' = "" /\ queues_report' = <<>> /\ is_queue_found' = FALSE
    /\ mi' = 1 /\ fi' = 1
    /\ dq_hist' = [name |-> name, rows |-> st.rows, returned |-> TRUE,
                   entry |-> IF pc = "queue_loop" THEN committed ELSE dq_hist.entry]

\* Lines 188-190: an exception that left delete_queue is caught by the try
\* around the whole queue block: it is logged, no row is appended, the rows of
\* the call are lost with queues_report, and the loop over the queue names is
\* over; the work managers follow.
QueueEscape(st, name) ==
    /\ SetEdit(st)
    /\ report' = report
    /\ calls' = calls \o st.calls \o << Ev("log_error", "JMS queues", "") >>
    /\ qi' = Len(jms_queues_unique) + 1
    /\ pc' = "queue_loop"
    /\ queue_name' = "" /\ queues_report' = <<>> /\ is_queue_found' = FALSE
    /\ mi' = 1 /\ fi' = 1
    /\ dq_hist' = [name |-> name, rows |-> <<>>, returned |-> FALSE,
                   entry |-> IF pc = "queue_loop" THEN committed ELSE dq_hist.entry]

\* An exception inside the try of delete_queue: the except clause runs, and
\* the call returns its rows or the exception of the clause leaves it.
QueueExcept(st, name) ==
    LET handled == QueueHandler(st, name)
    IN IF handled.raised THEN QueueEscape(handled, name) ELSE QueueReturn(handled, name)

QueueFrame == << toggleVars, inputVars, projects, i, prj_details_report, sessions, rendered,
                 jms_queues_unique, wm_names_unique, wi, hist >>

\* Lines 180-183 and 767-782: the call for the next unique queue name, up to
\* startEdit.
DQ_Begin ==
    /\ pc = "queue_loop"
    /\ qi <= Len(jms_queues_unique)
    /\ \E fault \in FaultChoices({"startEdit"}), rejects \in BOOLEAN :
        LET name == jms_queues_unique[qi]
            entry == [Refusing(EditState, rejects) EXCEPT
                         !.calls = << Ev("delete_queue", name, "") >>]
            st == Run(<< Step("edit", "none", <<>>, <<>>),
                         Step("startEdit", "startEdit", <<>>, <<>>) >>, fault, entry)
        IN /\ faults' = IF fault = "none" THEN faults ELSE faults + 1
           /\ IF name = ""
              THEN fault = "none" /\ ~rejects /\ QueueReturn(entry, name)
              ELSE IF st.raised
              THEN QueueExcept(st, name)
              ELSE /\ SetEdit(st)
                   /\ calls' = calls \o st.calls
                   /\ queue_name' = name
                   /\ queues_report' = <<>>
                   /\ is_queue_found' = FALSE
                   /\ mi' = 1 /\ fi' = 1
                   /\ pc' = "dq_module"
                   /\ dq_hist' = [name |-> name, entry |-> committed, rows |-> <<>>,
                                  returned |-> FALSE]
                   /\ UNCHANGED << report, qi >>
    /\ UNCHANGED QueueFrame

\* the name is a distributed or a plain queue of module m: the user is asked
MatchesIn(m) ==
    \/ lookupUniformDistributedQueue(QueueState, m, queue_name)
    \/ lookupQueue(QueueState, m, queue_name)

\* the match in module m has an error destination: the user is asked about it
HasDmqIn(m) == MatchesIn(m) /\ getErrorDestination(QueueState, m, queue_name) # <<>>

\* the foreign server k of module m maps the name: the user is asked
MatchesForeign(m, k) ==
    k <= Len(JmsModules[m].foreign) /\ lookupForeignDestination(QueueState, m, k, queue_name)

\* Lines 784-909: one messaging module; the distributed queue is looked up
\* first, the plain queue only if that found nothing.
DQ_Module ==
    /\ pc = "dq_module"
    /\ mi <= Len(JmsModules)
    /\ \E answer \in PromptIf(MatchesIn(mi)), answerDmq \in PromptIf(HasDmqIn(mi)),
          fault \in FaultChoices({"destroy", "destroyDmq", "save", "activate"}),
          rejects \in BOOLEAN :
        LET m == JmsModules[mi]
            isUdq == lookupUniformDistributedQueue(QueueState, mi, queue_name)
            isQueue == ~isUdq /\ lookupQueue(QueueState, mi, queue_name)
            kind == IF isUdq THEN UDQ ELSE "Queue"
            bean == <<m.name, kind, queue_name>>
            looked == [Refusing(QueueState, rejects) EXCEPT !.calls =
                          << Ev("lookupUniformDistributedQueue", m.name, Found(isUdq)) >>
                          \o (IF isUdq THEN <<>>
                              ELSE << Ev("lookupQueue", m.name, Found(isQueue)) >>)]
            asked == Apply(Step(AnswerOp(answer), "none", bean, <<>>), "none", looked)
            dmq == getErrorDestination(QueueState, mi, queue_name)
            steps == QueueDeleteSteps(bean, dmq, Confirmed(answerDmq))
            st == Run(steps, fault, asked)
        IN /\ faults' = IF fault = "none" THEN faults ELSE faults + 1
           /\ IF ~isUdq /\ ~isQueue
              THEN /\ fault = "none" /\ ~rejects
                   /\ calls' = calls \o looked.calls
                   /\ pc' = "dq_foreign"
                   /\ fi' = 1
                   /\ UNCHANGED << dq_hist, report, qi, queue_name, queues_report, is_queue_found,
                                   mi, editVars >>
              ELSE IF ~Confirmed(answer)
              THEN LET dec == QueueDeclined(asked, SkippedType(kind), queue_name)
                   IN /\ fault = "none"
                      /\ IF dec.raised
                         THEN QueueExcept(dec, queue_name)
                         ELSE /\ SetEdit(dec)
                              /\ calls' = calls \o dec.calls
                              /\ queues_report' = dec.rows
                              /\ is_queue_found' = TRUE
                              /\ mi' = mi + 1
                              /\ pc' = IF ContinuesAfterDecline THEN "dq_module"
                                       ELSE "dq_end"
                              /\ UNCHANGED << dq_hist, report, qi, queue_name, fi >>
              ELSE /\ fault # "none" => fault \in FaultsOf(steps) /\ editOpen
                   /\ IF st.raised
                      THEN QueueExcept(st, queue_name)
                      ELSE /\ SetEdit(st)
                           /\ calls' = calls \o st.calls
                           /\ queues_report' = st.rows
                           /\ is_queue_found' = TRUE
                           /\ pc' = "dq_end"
                           /\ UNCHANGED << dq_hist, report, qi, queue_name, mi, fi >>
    /\ UNCHANGED QueueFrame

\* Lines 911-958: one foreign server of the module, or the end of the module.
DQ_Foreign ==
    /\ pc = "dq_foreign"
    /\ \E answer \in PromptIf(MatchesForeign(mi, fi)),
          fault \in FaultChoices({"destroy", "save", "activate"}),
          rejects \in BOOLEAN :
        LET m == JmsModules[mi]
            more == fi <= Len(m.foreign)
            found == more /\ lookupForeignDestination(QueueState, mi, fi, queue_name)
            bean == <<m.foreign[fi].name, "ForeignDestination", queue_name>>
            looked == [Refusing(QueueState, rejects) EXCEPT !.calls =
                          << Ev("lookupForeignDestination", m.name, Found(found)) >>]
            asked == Apply(Step(AnswerOp(answer), "none", bean, <<>>), "none", looked)
            steps == ForeignDeleteSteps(bean)
            st == Run(steps, fault, asked)
        IN /\ faults' = IF fault = "none" THEN faults ELSE faults + 1
           /\ IF ~more
              THEN /\ fault = "none" /\ ~rejects
                   /\ IF is_queue_found
                      THEN pc' = "dq_end" /\ mi' = mi
                      ELSE pc' = "dq_module" /\ mi' = mi + 1
                   /\ UNCHANGED << dq_hist, report, qi, queue_name, queues_report, is_queue_found,
                                   fi, editVars, calls >>
              ELSE IF ~found
              THEN /\ fault = "none" /\ ~rejects
                   /\ calls' = calls \o looked.calls
                   /\ fi' = fi + 1
                   /\ UNCHANGED << dq_hist, report, qi, queue_name, queues_report, is_queue_found,
                                   mi, pc, editVars >>
              ELSE IF ~Confirmed(answer)
              THEN LET dec == QueueDeclined(asked, "ForeignDestination", queue_name)
                   IN /\ fault = "none"
                      /\ IF dec.raised
                         THEN QueueExcept(dec, queue_name)
                         ELSE /\ SetEdit(dec)
                              /\ calls' = calls \o dec.calls
                              /\ queues_report' = dec.rows
                              /\ is_queue_found' = TRUE
                              /\ fi' = fi + 1
                              /\ UNCHANGED << dq_hist, report, qi, queue_name, mi, pc >>
              ELSE /\ fault # "none" => fault \in FaultsOf(steps) /\ editOpen
                   /\ IF st.raised
                      THEN QueueExcept(st, queue_name)
                      ELSE /\ SetEdit(st)
                           /\ calls' = calls \o st.calls
                           /\ queues_report' = st.rows
                           /\ is_queue_found' = TRUE
                           /\ pc' = "dq_end"
                           /\ UNCHANGED << dq_hist, report, qi, queue_name, mi, fi >>
    /\ UNCHANGED QueueFrame

\* Lines 960-965: after the loop over the modules.
DQ_End ==
    /\ \/ pc = "dq_end"
       \/ pc = "dq_module" /\ mi > Len(JmsModules)
    /\ IF is_queue_found
       THEN QueueReturn(QueueState, queue_name)
       ELSE QueueReturn(QueueNotFound(QueueState, queue_name), queue_name)
    /\ UNCHANGED << QueueFrame, faults >>


\* --------------------------------------------------------- delete_work_manager
\* a variant that destroys the work manager before its constraints; C29 must
\* tell it from WmDeleteSteps
WmDeleteSteps_wmFirst(wm_name) ==
    LET wm == WorkManagers[wm_name]
        maxtc == <<"SelfTuning", "MaxThreadsConstraint", wm.maxtc>>
        mintc == <<"SelfTuning", "MinThreadsConstraint", wm.mintc>>
        bean == <<"SelfTuning", "WorkManager", wm_name>>
    IN << Step("removeReferencesToBean", "none", bean, <<>>),
          Step("destroy", "destroyWm", bean, <<"Work manager", wm_name, "Deleted">>) >>
       \o (IF wm.maxtc = "" THEN <<>>
           ELSE << Step("removeReferencesToBean", "none", maxtc, <<>>),
                   Step("destroy", "destroyMax", maxtc,
                        <<"MaxThreadsConstraint", wm.maxtc, "Deleted">>) >>)
       \o (IF wm.mintc = "" THEN <<>>
           ELSE << Step("removeReferencesToBean", "none", mintc, <<>>),
                   Step("destroy", "destroyMin", mintc,
                        <<"MinThreadsConstraint", wm.mintc, "Deleted">>) >>)
       \o << Step("save", "save", <<>>, <<>>),
             Step("activate", "activate", <<>>, <<>>) >>

\* lines 713-745: the destructive steps for a work manager that was found
WmDeleteSteps(wm_name) ==
    LET wm == WorkManagers[wm_name]
        maxtc == <<"SelfTuning", "MaxThreadsConstraint", wm.maxtc>>
        mintc == <<"SelfTuning", "MinThreadsConstraint", wm.mintc>>
        bean == <<"SelfTuning", "WorkManager", wm_name>>
    IN (IF wm.maxtc = "" THEN <<>>
        ELSE << Step("removeReferencesToBean", "none", maxtc, <<>>),
                Step("destroy", "destroyMax", maxtc,
                     <<"MaxThreadsConstraint", wm.maxtc, "Deleted">>) >>)
       \o (IF wm.mintc = "" THEN <<>>
           ELSE << Step("removeReferencesToBean", "none", mintc, <<>>),
                   Step("destroy", "destroyMin", mintc,
                        <<"MinThreadsConstraint", wm.mintc, "Deleted">>) >>)
       \o << Step("removeReferencesToBean", "none", bean, <<>>),
             Step("destroy", "destroyWm", bean, <<"Work manager", wm_name, "Deleted">>),
             Step("save", "save", <<>>, <<>>),
             Step("activate", "activate", <<>>, <<>>) >>

\* lines 747-749: the work manager was not found
WmNotFound(st, wm_name) ==
    [st EXCEPT !.rows = Append(st.rows, <<"Work manager", wm_name, "Not found">>)]

\* the except clause, lines 751-756: the Failed row (line 754), then cancelEdit
\* (line 756), which is outside any try: when it raises, the exception leaves
\* delete_work_manager (raised stays TRUE) and wm_report is lost
WmHandler(st, wm_name) ==
    LET logged == [st EXCEPT !.raised = FALSE,
                             !.calls = Append(st.calls, Ev("log_error", wm_name, "")),
                             !.rows = Append(st.rows, <<"Work manager", wm_name, "Failed">>)]
    IN cancelEdit(logged)

\* the steps of the try block, lines 705-749
WmSteps(st, wm_name) ==
    << Step("edit", "none", <<>>, <<>>),
       Step("startEdit", "startEdit", <<>>, <<>>),
       Step("getMBean", "none", <<"SelfTuning", "WorkManager", wm_name>>, <<>>) >>
    \o (IF getMBean(st, wm_name) THEN WmDeleteSteps(wm_name) ELSE <<>>)

\* delete_work_manager(wm_name): the edit state after the call, with the rows
\* of wm_report and the calls made; raised tells that the exception of the
\* except clause left the call, which then returned nothing
delete_work_manager(st, wm_name, fault) ==
    LET entry == [st EXCEPT !.calls = Append(st.calls, Ev("delete_work_manager", wm_name, ""))]
        ran == Run(WmSteps(st, wm_name), fault, entry)
        out == IF ran.raised THEN WmHandler(ran, wm_name)
               ELSE IF getMBean(st, wm_name) THEN ran
               ELSE WmNotFound(ran, wm_name)
    IN IF out.raised THEN out
       ELSE [out EXCEPT !.calls =
                Append(out.calls, Ev("delete_work_manager_return", wm_name, ""))]

\* Lines 228-231: an exception that left delete_work_manager is caught by the
\* try around the whole work-manager block: it is logged and a Failed row for
\* the name at hand is appended.
WmEscapeRows(wm_name) == << <<"Work manager", wm_name, "Failed">> >>

WmEscapeCalls == << Ev("log_error", "Work Managers", "") >>

\* Lines 196-207: the unique work-manager names of the snapshot, after the queues;
\* with no name left the loop body ends and the next project follows.
U_WorkManagers ==
    /\ pc = "queue_loop"
    /\ qi > Len(jms_queues_unique)
    /\ LET names == Unique(WmNames(SnapshotRows))
       IN /\ wm_names_unique' = names
          /\ wi' = 1
          /\ pc' = IF names = <<>> THEN "loop" ELSE "wm_loop"
          /\ i' = IF names = <<>> THEN i + 1 ELSE i
    /\ UNCHANGED << toggleVars, inputVars, projects, prj_details_report, sessions, report, rendered,
                    jms_queues_unique, qi, queueLocals, editVars, faults, calls, hist, dq_hist >>

\* Lines 209-231: one work-manager name: the prompt, then the reaper or a
\* Skipped row; after the last name the next project follows. An exception
\* that left the reaper ends the loop over the names (lines 228-231).
U_WorkManager ==
    /\ pc = "wm_loop"
    /\ wi <= Len(wm_names_unique)
    /\ \E answer \in Prompt,
          fault \in FaultChoices({"startEdit", "destroyMax", "destroyMin", "destroyWm",
                                  "save", "activate"}),
          rejects \in BOOLEAN :
        LET wm_name == wm_names_unique[wi]
            asked == Apply(Step(AnswerOp(answer), "none",
                                <<"SelfTuning", "WorkManager", wm_name>>, <<>>),
                           "none", Refusing(EditState, rejects))
            st == delete_work_manager(asked, wm_name, fault)
            last == wi = Len(wm_names_unique) \/ (Confirmed(answer) /\ st.raised)
        IN /\ faults' = IF fault = "none" THEN faults ELSE faults + 1
           /\ IF Confirmed(answer)
              THEN /\ fault # "none" => fault \in FaultsOf(WmSteps(asked, wm_name))
                   /\ SetEdit(st)
                   /\ report' = IF st.raised THEN report \o WmEscapeRows(wm_name)
                                ELSE report \o st.rows
                   /\ calls' = IF st.raised THEN calls \o st.calls \o WmEscapeCalls
                               ELSE calls \o st.calls
              ELSE /\ fault = "none" /\ ~rejects
                   /\ report' = Append(report, <<"Work manager", wm_name, "Skipped">>)
                   /\ calls' = calls \o asked.calls
                   /\ UNCHANGED editVars
           /\ wi' = IF last THEN Len(wm_names_unique) + 1 ELSE wi + 1
           /\ pc' = IF last THEN "loop" ELSE "wm_loop"
           /\ i' = IF last THEN i + 1 ELSE i
    /\ UNCHANGED << toggleVars, inputVars, projects, prj_details_report, sessions, rendered,
                    jms_queues_unique, qi, wm_names_unique, queueLocals, hist, dq_hist >>

\* Lines 236-237: the combined report, sorted by create_report.
U_Report ==
    /\ pc = "loop"
    /\ i > Len(prj_names)
    /\ rendered' = SortRows(report)
    /\ calls' = Append(calls, [op |-> "create_report", i |-> 0, a |-> "", b |-> "report"])
    /\ pc' = "done"
    /\ UNCHANGED << toggleVars, inputVars, projects, i, prj_details_report, sessions, report,
                    cascadeVars, queueLocals, editVars, faults, hist, dq_hist >>

\* ------------------------------------------------- the toggle workflows
\* manage_proxy_services (lines 296-416) and proxy_services_monitoring (lines
\* 419-538) have the same structure; they differ in the flag they read and
\* write and in the text of the aggregate comment. prx_full_names is the list
\* after split(" "), made of non-empty paths; each deployed path has one
\* reference.
actionTxt == IF action = 1 THEN "enable" ELSE "disable"

\* actionTxt.capitalize()
Capitalize(s) == IF s = "enable" THEN "Enable" ELSE "Disable"

\* a variant that never finds the service in the state asked for; C17 must
\* tell it from ActionEquals
ActionEquals_never(is_enabled) == FALSE

\* action == is_enabled, an int compared with a boolean
ActionEquals(is_enabled) == action = (IF is_enabled THEN 1 ELSE 0)

\* the call of lines 376-379 (498-501): the disable call for 0, else the enable call
ToggleOp ==
    IF workflow = "manage_proxy_services"
    THEN (IF action = 0 THEN "disableService" ELSE "enableService")
    ELSE (IF action = 0 THEN "disableMonitoring" ELSE "enableMonitoring")

\* the call of line 366 (488) that reads the flag
ReadOp == IF workflow = "manage_proxy_services" THEN "isEnabled" ELSE "isMonitoringEnabled"

\* what the history records of a flag that was read
FlagText(b) == IF b THEN "true" ELSE "false"

\* the flag of a service after the call of ToggleOp
Toggled(flags, path) == [flags EXCEPT ![path] = (action # 0)]

\* the STATUS column of a found service
Status(already) == Capitalize(actionTxt) \o "d" \o (IF already THEN "*" ELSE "")

\* the comment of the activation inside the loop (lines 387-392)
ItemComment(path) ==
    IF is_standalone THEN LocalName(path) \o " " \o actionTxt \o "d" ELSE TypedComment

\* the comment of the activation after the loop (lines 397-402, 519-524)
AggregateComment(n) ==
    IF ~is_standalone THEN TypedComment
    ELSE IF workflow = "manage_proxy_services"
         THEN ToStr(n) \o " proxy services " \o actionTxt \o "d"
         ELSE "Monitoring of " \o ToStr(n) \o " proxy services is" \o actionTxt \o "d"

\* a variant that activates after the loop whatever was counted; C19 must tell
\* it from ActivatesAfterLoop
ActivatesAfterLoop_always(cnt, mod) == TRUE

\* prx_full_names_cnt > 1 and mod_prx_cnt > 0 (line 395)
ActivatesAfterLoop(cnt, mod) == cnt > 1 /\ mod > 0

\* a variant that never activates inside the loop; C18 must tell it from
\* ActivatesInLoop
ActivatesInLoop_never(cnt) == FALSE

\* prx_full_names_cnt == 1 (line 385)
ActivatesInLoop(cnt) == cnt = 1

\* a variant whose except clause renders nothing; C20 must tell it from
\* RendersPartial
RendersPartial_never(rows) == FALSE

\* if report: create_report(...) of the except clause (lines 414-415)
RendersPartial(rows) == rows # <<>>

ReportEv == [op |-> "create_report", i |-> 0, a |-> "", b |-> "report"]

\* the record of a run: where its calls start, its session, the flags it found
RunBegun(sname) ==
    [from |-> Len(calls) + 1, sname |-> sname, start |-> coreFlag, ended |-> FALSE,
     raised |-> FALSE, at |-> 0, rows |-> <<>>, shown |-> FALSE, rendered |-> <<>>]

\* the record of a run that ended: whether it raised (at: the last call before
\* the except clause), its rows, whether and what it rendered
RunEnded(rec, raised, shown, at, rows) ==
    [rec EXCEPT !.ended = TRUE, !.raised = raised, !.at = at, !.rows = rows,
                !.shown = shown,
                !.rendered = IF shown THEN SortRows(rows) ELSE <<>>]

Raised(b) == IF b THEN "raised" ELSE ""

\* The except clause (lines 411-416, 533-538) after the calls evs: log, discard
\* the session if it still exists, render the rows collected so far if there
\* are any, log the error. ss is the session list, rows the report and core the
\* activated flags when the exception was raised.
TgExcept(evs, ss, sname, rows, core) ==
    /\ sessions' = discard_session(ss, sname)
    /\ rendered' = IF RendersPartial(rows) THEN SortRows(rows) ELSE rendered
    /\ calls' = calls \o evs
                 \o << Ev("log_error", "discarding", "") >>
                 \o (IF sessionExists(ss, sname) THEN << Ev("discardSession", "", "") >>
                     ELSE <<>>)
                 \o (IF RendersPartial(rows) THEN << ReportEv >> ELSE <<>>)
                 \o << Ev("log_error", "error", "") >>
    /\ pc' = "t_done"
    /\ tg_hist' = [tg_hist EXCEPT ![run] = RunEnded(@, TRUE, RendersPartial(rows),
                                                  Len(calls) + Len(evs), rows)]
    /\ report' = rows
    /\ coreFlag' = core

\* Lines 324-343 (446-465): the report starts empty, the session is created,
\* the counters start at 0. createSession may raise.
T_Begin ==
    /\ pc = "t_begin"
    /\ \E fault \in FaultChoices({"createSession"}) :
        LET sname == Len(sessions) + 1
            evs == << Ev(workflow, "", ""),
                      Ev("createSession", "", Raised(fault = "createSession")) >>
        IN /\ faults' = IF fault = "none" THEN faults ELSE faults + 1
           /\ IF fault = "createSession"
              THEN /\ sessions' = discard_session(sessions, sname)
                   /\ calls' = calls \o evs \o << Ev("log_error", "discarding", ""),
                                                  Ev("log_error", "error", "") >>
                   /\ pc' = "t_done"
                   /\ tg_hist' = Append(tg_hist,
                                        [RunBegun(0) EXCEPT !.ended = TRUE, !.raised = TRUE,
                                                            !.at = Len(calls) + 2])
                   /\ UNCHANGED << sessFlag, mod_prx_cnt, prx_full_names_cnt >>
              ELSE /\ sessions' = Append(sessions, NewSession(""))
                   /\ sessFlag' = coreFlag
                   /\ mod_prx_cnt' = 0
                   /\ prx_full_names_cnt' = 0
                   /\ calls' = calls \o evs
                   /\ tg_hist' = Append(tg_hist, RunBegun(sname))
                   /\ pc' = "t_loop"
    /\ report' = <<>>
    /\ rendered' = <<>>
    /\ i' = 1
    /\ UNCHANGED << is_standalone, undeployVars, toggleInputs, coreFlag, run >>

\* The loop over the references of one path (lines 364-393, 486-515). loc is
\* the state of the workflow: the flags as the session shows them, the counter,
\* the sessions, the activated flags, the rows, the calls made, the fault that
\* is still to come with the position at of the reference it strikes at, the
\* position k of the reference at hand, and whether a call raised. Every call
\* of the loop is inside the try block, so the toggle call or the activation
\* of any reference may be the one that raises. Once the session was activated
\* the session MBeans belong to a session that is gone: rejects tells whether
\* the server refuses the calls made on them (getEnvValue raises) or answers
\* them; activateSession of a session that is not open raises.
RECURSIVE RefLoop(_, _, _, _, _, _)
RefLoop(refs, path, cnt, rejects, sname, loc) ==
    IF refs = <<>> \/ loc.raised THEN loc
    ELSE LET ref == Head(refs)
             open == sessionExists(loc.ss, sname)
             already == ActionEquals(loc.flags[ref])
             read == [loc EXCEPT
                         !.evs = Append(@, Ev(ReadOp, FullName(ref), FlagText(loc.flags[ref])))]
             toggleRaises == loc.fault = "toggle" /\ loc.k = loc.at
             toggled == [read EXCEPT
                            !.evs = Append(@, Ev(ToggleOp, FullName(ref), Raised(toggleRaises))),
                            !.raised = toggleRaises,
                            !.fault = IF toggleRaises THEN "none" ELSE @,
                            !.flags = IF toggleRaises THEN @ ELSE Toggled(@, ref),
                            !.mod = IF toggleRaises THEN @ ELSE @ + 1,
                            !.ss = IF toggleRaises THEN @
                                   ELSE [@ EXCEPT ![sname].mutations = @ + 1]]
             struck == toggled.fault = "activateSession" /\ loc.k = loc.at
             activateRaises == struck \/ ~open
             activated == [toggled EXCEPT
                              !.evs = Append(@, Ev("activateSession", ItemComment(path),
                                                   Raised(activateRaises))),
                              !.raised = activateRaises,
                              !.fault = IF struck THEN "none" ELSE @,
                              !.ss = IF activateRaises THEN @
                                     ELSE [@ EXCEPT ![sname].state = "Activated"],
                              !.core = IF activateRaises THEN @ ELSE toggled.flags]
             after == IF toggled.raised \/ ~ActivatesInLoop(cnt) THEN toggled
                      ELSE activated
             row == <<FullName(path), Status(already), ServiceUri(ref)>>
         IN IF ~open /\ rejects
            THEN [loc EXCEPT !.evs = Append(@, Ev("getEnvValue", FullName(ref), "raised")),
                             !.raised = TRUE]
            ELSE IF already
            THEN RefLoop(Tail(refs), path, cnt, rejects, sname,
                         [read EXCEPT !.rows = Append(@, row), !.k = @ + 1])
            ELSE IF after.raised THEN after
            ELSE RefLoop(Tail(refs), path, cnt, rejects, sname,
                         [after EXCEPT !.rows = Append(@, row), !.k = @ + 1])

\* One pass of the for loop over the paths (lines 345-393, 467-515): query the
\* path; not found, or for each reference already in the state asked for, or
\* modified, and then activated at once when prx_full_names_cnt is 1. getRefs,
\* the toggle call on any of the references and activateSession after any of
\* them may raise.
T_Path ==
    /\ pc = "t_loop"
    /\ i <= Len(prx_full_names)
    /\ \E fault \in FaultChoices({"getRefs", "toggle", "activateSession"}),
          rejects \in BOOLEAN, at \in 1..Max({1, Len(Refs(prx_full_names[i]))}) :
        LET prx_full_name == prx_full_names[i]
            name == FullName(prx_full_name)
            sname == Len(sessions)
            prx_refs == Refs(prx_full_name)
            found == prx_refs # <<>>
            cnt == IF found THEN Len(prx_full_names) ELSE prx_full_names_cnt
            entry == [flags |-> sessFlag, mod |-> mod_prx_cnt, ss |-> sessions,
                      core |-> coreFlag, rows |-> report, fault |-> fault,
                      at |-> at, k |-> 1,
                      raised |-> fault = "getRefs",
                      evs |-> << Ev("getRefs", name,
                                    IF fault = "getRefs" THEN "raised" ELSE Found(found)) >>]
            loc == IF fault = "getRefs" THEN entry
                   ELSE IF ~found
                   THEN [entry EXCEPT !.rows = Append(@, <<name, "Not found", "N/A">>)]
                   ELSE RefLoop(prx_refs, prx_full_name, cnt, rejects, sname, entry)
        IN /\ fault \in {"toggle", "activateSession"} => loc.fault = "none"
           /\ fault \notin {"toggle", "activateSession"} => at = 1
           /\ faults' = IF fault = "none" THEN faults ELSE faults + 1
           /\ prx_full_names_cnt' = IF fault = "getRefs" THEN prx_full_names_cnt ELSE cnt
           /\ mod_prx_cnt' = loc.mod
           /\ sessFlag' = loc.flags
           /\ IF loc.raised
              THEN /\ TgExcept(loc.evs, loc.ss, sname, loc.rows, loc.core)
                   /\ i' = i
              ELSE /\ sessions' = loc.ss
                   /\ coreFlag' = loc.core
                   /\ report' = loc.rows
                   /\ calls' = calls \o loc.evs
                   /\ i' = i + 1
                   /\ pc' = "t_loop"
                   /\ UNCHANGED << rendered, tg_hist >>
    /\ UNCHANGED << is_standalone, undeployVars, toggleInputs, run >>

\* After the loop (lines 395-409, 517-531): activate once when more than one
\* path was given and something was modified, discard when nothing was
\* modified, then render the report. activateSession may raise.
T_End ==
    /\ pc = "t_loop"
    /\ i > Len(prx_full_names)
    /\ \E fault \in FaultChoices({"activateSession"}) :
        LET sname == Len(sessions)
            activates == ActivatesAfterLoop(prx_full_names_cnt, mod_prx_cnt)
            discards == ~activates /\ mod_prx_cnt = 0
            evs == IF activates
                   THEN << Ev("activateSession", AggregateComment(mod_prx_cnt),
                              Raised(fault = "activateSession")) >>
                   ELSE IF discards /\ sessionExists(sessions, sname)
                        THEN << Ev("discardSession", "", "") >> ELSE <<>>
        IN /\ fault = "activateSession" => activates
           /\ faults' = IF fault = "none" THEN faults ELSE faults + 1
           /\ IF fault # "none"
              THEN TgExcept(evs, sessions, sname, report, coreFlag)
              ELSE /\ sessions' = IF activates
                                  THEN [sessions EXCEPT ![sname].state = "Activated"]
                                  ELSE IF discards THEN discard_session(sessions, sname)
                                       ELSE sessions
                   /\ coreFlag' = IF activates THEN sessFlag ELSE coreFlag
                   /\ rendered' = SortRows(report)
                   /\ calls' = calls \o evs \o << ReportEv >>
                   /\ pc' = "t_done"
                   /\ tg_hist' = [tg_hist EXCEPT ![run] = RunEnded(@, FALSE, TRUE, 0, report)]
                   /\ UNCHANGED report
    /\ UNCHANGED << is_standalone, undeployVars, toggleInputs, i, mod_prx_cnt,
                    prx_full_names_cnt, sessFlag, run >>

\* The main menu (lines 1318-1323) starts the workflow again; the user types
\* the same paths and the same action.
T_Again ==
    /\ pc = "t_done"
    /\ run < MaxRuns
    /\ run' = run + 1
    /\ pc' = "t_begin"
    /\ UNCHANGED << is_standalone, undeployVars, toggleInputs, i, sessions, report,
                    rendered, faults, calls, mod_prx_cnt, prx_full_names_cnt,
                    coreFlag, sessFlag, tg_hist >>

\* A toggle workflow is entered with its inputs read (lines 304-322): one to
\* MaxPaths paths, an action, and any flags in the registry.
InitToggle ==
    /\ is_standalone \in BOOLEAN
    /\ prj_names = <<>>
    /\ projects = {}
    /\ prjRefs = [p \in Names |-> <<>>]
    /\ RunStart
    /\ workflow \in Workflows
    /\ action \in Actions
    /\ prx_full_names \in SeqsUpTo(PathTokens, MaxPaths) \ {<<>>}
    /\ typed = JoinPaths(prx_full_names)
    /\ mod_prx_cnt = 0 /\ prx_full_names_cnt = 0
    /\ coreFlag \in [Endpoints -> BOOLEAN]
    /\ sessFlag = coreFlag
    /\ run = 1
    /\ tg_hist = <<>>
    /\ pc = "t_begin"

\* The same with paths that may resolve to several references.
InitWildcard ==
    /\ is_standalone \in BOOLEAN
    /\ prj_names = <<>>
    /\ projects = {}
    /\ prjRefs = [p \in Names |-> <<>>]
    /\ RunStart
    /\ workflow \in Workflows
    /\ action \in Actions
    /\ prx_full_names \in SeqsUpTo(WildcardTokens, MaxPaths) \ {<<>>}
    /\ typed = JoinPaths(prx_full_names)
    /\ mod_prx_cnt = 0 /\ prx_full_names_cnt = 0
    /\ coreFlag \in [Endpoints -> BOOLEAN]
    /\ sessFlag = coreFlag
    /\ run = 1
    /\ tg_hist = <<>>
    /\ pc = "t_begin"

\* The two workflows on the same input: manage_proxy_services is entered with
\* a typed line, an action and the flags of the registry.
InitBoth ==
    /\ is_standalone \in BOOLEAN
    /\ prj_names = <<>>
    /\ projects = {}
    /\ prjRefs = [p \in Names |-> <<>>]
    /\ RunStart
    /\ workflow = "manage_proxy_services"
    /\ typed \in TypedLines
    /\ action \in Actions
    /\ prx_full_names = ParsePaths(workflow, typed)
    /\ mod_prx_cnt = 0 /\ prx_full_names_cnt = 0
    /\ coreFlag \in [Endpoints -> BOOLEAN]
    /\ sessFlag = coreFlag
    /\ run = 1
    /\ tg_hist = <<>>
    /\ pc = "t_begin"

\* The main menu (lines 1318-1323) then starts proxy_services_monitoring; the
\* user types the same line and the same action, and the monitoring flag of
\* each service has the value its state flag had before.
T_Other ==
    /\ pc = "t_done"
    /\ workflow = "manage_proxy_services"
    /\ workflow' = "proxy_services_monitoring"
    /\ prx_full_names' = ParsePaths("proxy_services_monitoring", typed)
    /\ coreFlag' = tg_hist[run].start
    /\ sessFlag' = tg_hist[run].start
    /\ run' = run + 1
    /\ pc' = "t_begin"
    /\ UNCHANGED << is_standalone, undeployVars, typed, action, i, sessions, report,
                    rendered, faults, calls, mod_prx_cnt, prx_full_names_cnt, tg_hist >>

NextBoth ==
    \/ T_Begin
    \/ T_Path
    \/ T_End
    \/ T_Other

NextToggle ==
    \/ T_Begin
    \/ T_Path
    \/ T_End
    \/ T_Again

Next ==
    \/ U_Begin
    \/ U_Discover
    \/ U_Session
    \/ U_Cascade
    \/ DQ_Begin
    \/ DQ_Module
    \/ DQ_Foreign
    \/ DQ_End
    \/ U_WorkManagers
    \/ U_WorkManager
    \/ U_Report

Spec == Init /\ [][Next]_vars

SpecCascade == InitCascade /\ [][Next]_vars

SpecDiscovery == InitDiscovery /\ [][Next]_vars

SpecWorkManagers == InitWorkManagers /\ [][Next]_vars

SpecToggle == InitToggle /\ [][NextToggle]_vars

SpecWildcard == InitWildcard /\ [][NextToggle]_vars

SpecBoth == InitBoth /\ [][NextBoth]_vars


\* ------------------------------------------------- reading the histories
\* the rows appended to the report while position j of the batch was processed
RowsOf(j) ==
    SubSeq(report, hist[j].from + 1,
           IF j < Len(hist) THEN hist[j + 1].from ELSE Len(report))

HasRow(j, row) == \E k \in 1..Len(RowsOf(j)) : RowsOf(j)[k] = row

CountRow(j, row) == Cardinality({k \in 1..Len(RowsOf(j)) : RowsOf(j)[k] = row})

PrjRow(j, status) == <<"OSB project", hist[j].prj, status>>

SessionsOf(j) == {k \in 1..Len(sessions) : sessions[k].i = j}

Called(j, ops) == \E c \in 1..Len(calls) : calls[c].i = j /\ calls[c].op \in ops

ReaperCalled(j) == Called(j, {"delete_queue", "delete_work_manager"})

ReaperRow(j) == \E k \in 1..Len(RowsOf(j)) : RowsOf(j)[k][1] # "OSB project"

\* ------------------------------------------------------------------ C1
\* C1: every session created for a project has been activated or discarded
\* once the loop has moved past that project (or the workflow has returned),
\* whichever way the project ended: deleted, not found inside the session,
\* declined by the user, or an exception.
C1_NoSessionLeftOpen ==
    \A k \in 1..Len(sessions) :
        sessions[k].i < i => sessions[k].state \in {"Activated", "Discarded"}

\* ------------------------------------------------------------------ C2
\* the name at position j was handed to get_prj_details (it is not an empty
\* word, which line 87 skips) and the loop is through with it
NameProcessed(j) == hist[j].tag # "" /\ (j < i \/ pc \in {"done", "returned"})

\* C2: a name of the batch that is not a deployed project gets exactly one row,
\* (OSB project, P, Not found), and no session is created for it.
C2_NotFoundOneRowNoSession ==
    \A j \in 1..Len(hist) :
        (NameProcessed(j) /\ ~hist[j].existed) =>
            /\ RowsOf(j) = << PrjRow(j, "Not found") >>
            /\ SessionsOf(j) = {}
            /\ ~Called(j, {"createSession"})

\* ------------------------------------------------------------------ C3
\* C3: a reaper is invoked for a project, and a queue or work-manager row is
\* appended for it, only if the project was deleted: its row is Deleted and its
\* session was activated. A project that was declined, not found or failed has
\* no reaper call and no such row.
C3_ReapersOnlyAfterDeletion ==
    \A j \in 1..Len(hist) :
        (ReaperCalled(j) \/ ReaperRow(j)) =>
            /\ HasRow(j, PrjRow(j, "Deleted"))
            /\ \E k \in SessionsOf(j) : sessions[k].state = "Activated"
            /\ hist[j].prj \notin projects
            /\ ~HasRow(j, PrjRow(j, "Failed"))
            /\ ~HasRow(j, PrjRow(j, "Skipped by user"))
            /\ ~HasRow(j, PrjRow(j, "Not found"))

C3_Witness ==
    /\ \E j \in 1..Len(hist) : ReaperCalled(j) /\ ReaperRow(j)
    /\ \E j \in 1..Len(hist) :
          /\ j < i /\ hist[j].existed /\ hist[j].rows # <<>>
          /\ ~HasRow(j, PrjRow(j, "Deleted"))
          /\ ~ReaperCalled(j)

\* ------------------------------------------------------------------ C4
\* C4: when delete or activateSession raises for a project, its session is
\* discarded, exactly one (OSB project, P, Failed) row and no Deleted row is
\* appended for it, no reaper runs for it, and the loop goes on: every
\* position of the batch has been visited when the workflow returns.
C4_FailedDeletion ==
    /\ \A j \in 1..Len(hist) :
          hist[j].fault \in {"delete", "activateSession"} =>
              /\ j < i
              /\ SessionsOf(j) # {}
              /\ \A k \in SessionsOf(j) : sessions[k].state = "Discarded"
              /\ CountRow(j, PrjRow(j, "Failed")) = 1
              /\ ~HasRow(j, PrjRow(j, "Deleted"))
              /\ ~ReaperCalled(j) /\ ~ReaperRow(j)
    /\ pc = "done" => Len(hist) = Len(prj_names)

C4_Witness ==
    /\ pc = "done"
    /\ \E j \in 1..Len(hist) :
          /\ hist[j].fault \in {"delete", "activateSession"}
          /\ j < Len(hist)
          /\ hist[j + 1].prj # ""

\* ------------------------------------------------------------------ C5
\* C5: a deployed project that owns no proxy and no business service gets the
\* row (OSB project, P, Project is empty), followed by a Deleted, Failed or
\* Skipped row for the project.
C5_EmptyProjectRow ==
    \A j \in 1..Len(hist) :
        (/\ j < i /\ hist[j].prj # "" /\ hist[j].existed
         /\ \A k \in 1..Len(hist[j].refs) :
               hist[j].refs[k].typeId \notin {"ProxyService", "BusinessService"}) =>
            \E a, b \in 1..Len(RowsOf(j)) :
                /\ a < b
                /\ RowsOf(j)[a] = PrjRow(j, "Project is empty")
                /\ RowsOf(j)[b] \in {PrjRow(j, "Deleted"), PrjRow(j, "Failed"),
                                     PrjRow(j, "Skipped by user")}

\* ------------------------------------------------------------------ C6
\* C6: the dependency snapshot of a project is taken before the project is
\* deleted and the registry is not asked about the project again afterwards;
\* the cascade reads the rows of that snapshot, and every name handed to a
\* reaper is a name of that snapshot.
SnapshotQueueNames(j) ==
    {JmsQueues(hist[j].rows)[k] : k \in 1..Len(JmsQueues(hist[j].rows))}

SnapshotWmNames(j) ==
    {WmNames(hist[j].rows)[k] : k \in 1..Len(WmNames(hist[j].rows))}

C6_SnapshotBeforeDelete ==
    /\ \A d \in 1..Len(calls) :
          calls[d].op = "delete" =>
              /\ \E g \in 1..(d - 1) :
                    calls[g].op = "get_prj_details" /\ calls[g].i = calls[d].i
              /\ \A g \in (d + 1)..Len(calls) :
                    ~(calls[g].op = "get_prj_details" /\ calls[g].i = calls[d].i)
    /\ \A c \in 1..Len(calls) :
          /\ calls[c].op = "delete_queue" =>
                calls[c].a \in SnapshotQueueNames(calls[c].i)
          /\ calls[c].op = "delete_work_manager" =>
                calls[c].a \in SnapshotWmNames(calls[c].i)
    /\ pc \in {"cascade", "queue_loop"} => SnapshotRows = hist[i].rows
    /\ pc = "queue_loop" => jms_queues_unique = Unique(JmsQueues(hist[i].rows))
    /\ pc = "wm_loop" => wm_names_unique = Unique(WmNames(hist[i].rows))

C6_Witness ==
    /\ pc = "done"
    /\ \E j \in 1..Len(hist) :
          /\ Called(j, {"delete_queue"})
          /\ Called(j, {"delete_work_manager"})

\* ------------------------------------------------------------------ C7
\* C7: for a deleted project, delete_queue is invoked exactly once per distinct
\* queue name found among the URIs of the snapshot that contain jms://, the
\* name being the last dot-delimited token of the trailing path segment, in the
\* order in which the names first occur; other URIs contribute no call.
NameByClaim(uri) ==
    LET seps == {k \in 1..Len(uri) : uri[k] \in {"/", "."}}
    IN Concat(SubSeq(uri, (IF seps = {} THEN 0 ELSE Max(seps)) + 1, Len(uri)))

JmsRowsAt(j) ==
    {k \in 1..Len(hist[j].rows) : ContainsJms(hist[j].rows[k][3])}

FirstAt(j, name) ==
    CHOOSE k \in JmsRowsAt(j) :
        /\ NameByClaim(hist[j].rows[k][3]) = name
        /\ \A l \in JmsRowsAt(j) : NameByClaim(hist[j].rows[l][3]) = name => k <= l

QueueCalls(j) == SelectSeq(calls, LAMBDA e : e.op = "delete_queue" /\ e.i = j)

C7_OncePerDistinctQueue ==
    \A j \in 1..Len(hist) :
        (HasRow(j, PrjRow(j, "Deleted")) /\ (j < i \/ pc = "wm_loop")) =>
            LET cs == QueueCalls(j)
            IN /\ \A a, b \in 1..Len(cs) : a # b => cs[a].a # cs[b].a
               /\ {cs[a].a : a \in 1..Len(cs)}
                    = {NameByClaim(hist[j].rows[k][3]) : k \in JmsRowsAt(j)}
               /\ \A a, b \in 1..Len(cs) :
                     a < b => FirstAt(j, cs[a].a) < FirstAt(j, cs[b].a)

\* ------------------------------------------------- the latest delete_queue call
CallStart == Max({0} \cup {c \in 1..Len(calls) : calls[c].op = "delete_queue"})

InCall == (CallStart + 1)..Len(calls)

JustReturned ==
    /\ calls # <<>>
    /\ calls[Len(calls)].op = "delete_queue_return"
    /\ dq_hist.returned

DmqNames ==
    UNION {{JmsModules[m].err[n] : n \in DOMAIN JmsModules[m].err} : m \in 1..Len(JmsModules)}

DmqDeclinedAt(c) ==
    c \in InCall /\ calls[c].op = "prompt" /\ calls[c].a \in DmqNames /\ calls[c].b = "N"

PrimaryDeclinedAt(c) ==
    c \in InCall /\ calls[c].op = "prompt" /\ calls[c].a \notin DmqNames /\ calls[c].b = "N"

RaisedInCall == \E c \in InCall : calls[c].op = "log_error"

ReturnedRow(row) == \E k \in 1..Len(dq_hist.rows) : dq_hist.rows[k] = row

AllGone == unsaved \cup saved \cup committed

\* ------------------------------------------------------------------ C8
\* C8: within one delete_queue call, once the name matched a distributed queue
\* in a module, no plain-queue lookup and no foreign-destination lookup is made
\* for the name any more, in that module or a later one, whatever the user
\* answered.
C8_NoLookupAfterUdqMatch ==
    \A x, y \in 1..Len(calls) :
        (/\ x < y
         /\ calls[x].op = "lookupUniformDistributedQueue" /\ calls[x].b = "found"
         /\ calls[y].op \in {"lookupQueue", "lookupForeignDestination"}) =>
            \E z \in (x + 1)..(y - 1) : calls[z].op = "delete_queue"

\* ------------------------------------------------------------------ C9
\* C9: when delete_queue found Q with error destination D, the user confirmed Q
\* and declined D, and nothing raised, the call committed the deletion of Q and
\* of nothing else, returned exactly the two rows Deleted for Q and
\* (DMQ, D, Skipped), and D is not destroyed.
C9_DmqDeclined ==
    \A c \in 1..Len(calls) :
        (JustReturned /\ DmqDeclinedAt(c) /\ ~RaisedInCall) =>
            LET Q == dq_hist.name
                D == calls[c].a
            IN /\ Len(dq_hist.rows) = 2
               /\ \E kind \in {UDQ, "Queue"} :
                     /\ {dq_hist.rows[1], dq_hist.rows[2]}
                          = {<<kind, Q, "Deleted">>, <<"DMQ", D, "Skipped">>}
                     /\ \E bean \in committed :
                           /\ bean[2] = kind /\ bean[3] = Q
                           /\ committed \ dq_hist.entry = {bean}
               /\ \A bean \in AllGone : bean[3] # D
               /\ ~editOpen

C9_Witness ==
    /\ JustReturned
    /\ ~RaisedInCall
    /\ \E c \in 1..Len(calls) : DmqDeclinedAt(c)

\* ------------------------------------------------------------------ C10
\* C10 as stated: when the user declined at a confirmation point of a
\* delete_queue call, the primary destination or its error destination, the
\* call committed nothing, reported a Skipped row, and left no edit open.
C10_AnyDeclineRollsBack ==
    (JustReturned /\ \E c \in 1..Len(calls) : PrimaryDeclinedAt(c) \/ DmqDeclinedAt(c)) =>
        /\ committed = dq_hist.entry
        /\ \E k \in 1..Len(dq_hist.rows) : dq_hist.rows[k][3] = "Skipped"
        /\ ~editOpen

\* C10 as the code has it: a declined primary destination cancels the edit, so
\* the call commits nothing and reports a Skipped row for the name; a declined
\* error destination is reported (DMQ, D, Skipped) and is not destroyed, while
\* the deletion of the confirmed primary is still committed unless a call
\* raised; in both cases no edit is left open when the call returns.
C10_DeclineByPoint ==
    JustReturned =>
        /\ (\E c \in 1..Len(calls) : PrimaryDeclinedAt(c)) =>
              /\ committed = dq_hist.entry
              /\ \E k \in 1..Len(dq_hist.rows) :
                    dq_hist.rows[k][2] = dq_hist.name /\ dq_hist.rows[k][3] = "Skipped"
              /\ ~editOpen
        /\ \A c \in 1..Len(calls) :
              DmqDeclinedAt(c) =>
                  /\ ReturnedRow(<<"DMQ", calls[c].a, "Skipped">>)
                  /\ \A bean \in AllGone : bean[3] # calls[c].a
                  /\ ~RaisedInCall =>
                        \E bean \in committed \ dq_hist.entry : bean[3] = dq_hist.name
                  /\ RaisedInCall => committed = dq_hist.entry
                  /\ ~editOpen

C10_Witness ==
    /\ JustReturned
    /\ \E c \in 1..Len(calls) : PrimaryDeclinedAt(c)
    /\ unsaved = {} /\ saved = {}

\* ----------------------------------------- the latest delete_work_manager call
LastOp == IF calls = <<>> THEN "" ELSE calls[Len(calls)].op

WmCallStart == Max({0} \cup {c \in 1..Len(calls) : calls[c].op = "delete_work_manager"})

InWmCall == (WmCallStart + 1)..Len(calls)

WmJustReturned == LastOp = "delete_work_manager_return"

WmRaisedInCall == \E c \in InWmCall : calls[c].op = "log_error"

\* ------------------------------------------------------------------ C11
\* C11: when a call of delete_queue or delete_work_manager returns, the edit
\* it started has been activated or cancelled, whichever way the call ended
\* (deleted, not found, declined, exception): no edit is open at the return,
\* hence none is open when the next reaper call begins.
C11_NoEditOpenAtReturn ==
    LastOp \in {"delete_queue_return", "delete_work_manager_return"} => ~editOpen

\* ------------------------------------------------------------------ C12
\* C12: delete_work_manager never commits part of a deletion: save is issued
\* only after the work manager itself was destroyed in the same call, and when
\* a step of the call raised, no destroyed object is left pending (neither
\* unsaved nor saved), and the last row reported is (Work manager, name, Failed).
C12_WmNoPartialCommit ==
    WmJustReturned =>
        /\ \A s \in InWmCall :
              calls[s].op = "save" =>
                  \E d \in InWmCall :
                      /\ d < s /\ calls[d].op = "destroy"
                      /\ calls[d].a = "WorkManager"
                      /\ calls[d].b = calls[WmCallStart].a
        /\ WmRaisedInCall =>
              /\ unsaved = {} /\ saved = {}
              /\ report # <<>>
              /\ report[Len(report)] = <<"Work manager", calls[WmCallStart].a, "Failed">>

\* ------------------------------------------------------------------ C13
\* the reaper calls begun for project j
ReaperCalls(j) ==
    {c \in 1..Len(calls) :
        calls[c].i = j /\ calls[c].op \in {"delete_queue", "delete_work_manager"}}

\* the reaper call begun at c has returned to the loop that made it
ReaperReturned(c) ==
    \E d \in (c + 1)..Len(calls) :
        /\ calls[d].i = calls[c].i /\ calls[d].a = calls[c].a
        /\ calls[d].op = IF calls[c].op = "delete_queue" THEN "delete_queue_return"
                         ELSE "delete_work_manager_return"

\* the report of project j has a row about name n from the reaper called at c
ReaperRowFor(j, c) ==
    \E k \in 1..Len(RowsOf(j)) :
        /\ RowsOf(j)[k][2] = calls[c].a
        /\ IF calls[c].op = "delete_queue"
           THEN RowsOf(j)[k][1] \in {UDQ, "Queue", "ForeignDestination"}
           ELSE RowsOf(j)[k][1] = "Work manager"

\* the ERROR a reaper logs for its name, as opposed to the ones of the project
ReaperLogs(j) ==
    {c \in 1..Len(calls) :
        /\ calls[c].i = j /\ calls[c].op = "log_error"
        /\ calls[c].a \notin {hist[j].prj, "JMS queues", "Work Managers"}}

\* C13: once the cascade of a deleted project is over, a reaper call was made
\* for every unique queue name of the snapshot and, for every unique
\* work-manager name, either a reaper call or a Skipped row by the user's
\* choice, whatever failed on the way; every reaper call returned its rows to
\* the loop, the rows a call returns are appended to the report as they are,
\* every call for a name has a row about that name in the report, whether it
\* deleted, skipped, found nothing or failed, and every call that failed has
\* its Failed row there.
C13_CascadeGoesOn ==
    /\ JustReturned =>
          /\ Len(report) >= Len(dq_hist.rows)
          /\ SubSeq(report, Len(report) - Len(dq_hist.rows) + 1, Len(report)) = dq_hist.rows
    /\ \A j \in 1..Len(hist) :
          (j < i /\ HasRow(j, PrjRow(j, "Deleted"))) =>
              /\ \A n \in SnapshotQueueNames(j) :
                    \E c \in ReaperCalls(j) :
                        calls[c].op = "delete_queue" /\ calls[c].a = n
              /\ \A n \in SnapshotWmNames(j) :
                    \/ \E c \in ReaperCalls(j) :
                          calls[c].op = "delete_work_manager" /\ calls[c].a = n
                    \/ HasRow(j, <<"Work manager", n, "Skipped">>)
              /\ \A c \in ReaperCalls(j) :
                    /\ ReaperReturned(c)
                    /\ calls[c].a # "" => ReaperRowFor(j, c)
              /\ \A c \in ReaperLogs(j) :
                    \/ HasRow(j, <<"Queue", calls[c].a, "Failed">>)
                    \/ HasRow(j, <<"Work manager", calls[c].a, "Failed">>)

\* ------------------------------------------------------------------ C15
\* C15: in the final report every processed object has exactly one row: each
\* processed project one OSB project row, each queue name handed to
\* delete_queue one row of a destination type, each work-manager name of the
\* cascade one Work manager row.
RowsNamed(j, types, name) ==
    {k \in 1..Len(RowsOf(j)) : RowsOf(j)[k][1] \in types /\ RowsOf(j)[k][2] = name}

C15_OneRowPerObject ==
    pc = "done" =>
        \A j \in 1..Len(hist) :
            hist[j].prj # "" =>
                /\ Cardinality(RowsNamed(j, {"OSB project"}, hist[j].prj)) = 1
                /\ HasRow(j, PrjRow(j, "Deleted")) =>
                      /\ \A n \in SnapshotQueueNames(j) :
                            Cardinality(RowsNamed(j, {"Queue", UDQ, "ForeignDestination"}, n)) = 1
                      /\ \A n \in SnapshotWmNames(j) :
                            Cardinality(RowsNamed(j, {"Work manager"}, n)) = 1

\* ------------------------------------------------------------------ C14
\* C14: when the discovery of the dependency set failed for a project of the
\* batch (get_prj_details raised, or the extraction of a reference raised
\* inside it), the workflow still visits every later position of the batch and
\* ends by rendering the combined report.
DiscoveryFailed(j) ==
    \/ hist[j].tag = "raised"
    \/ hist[j].existed /\ CollectRows(hist[j].refs, <<>>).raised

C14_DiscoveryFailureGoesOn ==
    (pc \in {"done", "returned"} /\ \E j \in 1..Len(hist) : DiscoveryFailed(j)) =>
        /\ Len(hist) = Len(prj_names)
        /\ pc = "done"
        /\ LastOp = "create_report"

\* ------------------------------------------------------------------ C16
\* C16: sessions are never nested: whenever a configuration session is
\* created, every session created before it has been activated or discarded,
\* so that at most one session is open at any time.
C16_SessionsNotNested ==
    \A k, l \in 1..Len(sessions) : k < l => sessions[k].state # "Open"

\* ------------------------------------------- history of the toggle runs
ToggleOps == {"enableService", "disableService", "enableMonitoring", "disableMonitoring"}

\* the calls of run r: from its entry to the entry of the next run
RunTo(r) == IF r < Len(tg_hist) THEN tg_hist[r + 1].from - 1 ELSE Len(calls)

RunCalls(r) == tg_hist[r].from .. RunTo(r)

OpsIn(r, ops) == {c \in RunCalls(r) : calls[c].op \in ops}

\* run r ran to its end without an exception
Completed(r) == tg_hist[r].ended /\ ~tg_hist[r].raised

\* ------------------------------------------------------------------ C17
\* C17: when manage_proxy_services is run twice in succession to enable the
\* same single deployed service, which is disabled before the first run, and
\* neither run raises, the first run reports Enabled and the second Enabled*;
\* the second run makes no toggle call and no activation, and its session is
\* discarded without a mutation.
EnableTwice(r) ==
    /\ workflow = "manage_proxy_services" /\ action = 1
    /\ Len(prx_full_names) = 1 /\ prx_full_names[1] \in Endpoints
    /\ r + 1 <= Len(tg_hist)
    /\ ~tg_hist[r].start[prx_full_names[1]]
    /\ Completed(r) /\ Completed(r + 1)

C17_ToggleIdempotent ==
    \A r \in 1..Len(tg_hist) :
        EnableTwice(r) =>
            LET p == prx_full_names[1]
                second == tg_hist[r + 1].sname
            IN /\ tg_hist[r].rendered = << <<FullName(p), "Enabled", ServiceUri(p)>> >>
               /\ tg_hist[r + 1].rendered = << <<FullName(p), "Enabled*", ServiceUri(p)>> >>
               /\ OpsIn(r + 1, ToggleOps \cup {"activateSession"}) = {}
               /\ sessions[second].state = "Discarded"
               /\ sessions[second].mutations = 0
               /\ coreFlag[p]

\* the second of two such runs has ended
C17_Witness ==
    /\ pc = "t_done"
    /\ EnableTwice(1)

\* ------------------------------------------------------------------ C18
\* the toggle calls of run r that did not raise
Modifications(r) == {c \in OpsIn(r, ToggleOps) : calls[c].b # "raised"}

\* the comment made of the local name and the action
PerItemComment == LocalName(prx_full_names[1]) \o " " \o actionTxt \o "d"

\* the call after modification c is activateSession, made before the report
\* of the run is rendered, and the session is activated unless the call raised
ActivatedAtOnce(r, c) ==
    /\ c + 1 <= Len(calls)
    /\ calls[c + 1].op = "activateSession"
    /\ \A d \in OpsIn(r, {"create_report"}) : c + 1 < d
    /\ calls[c + 1].b # "raised" =>
          /\ sessions[tg_hist[r].sname].state = "Activated"
          /\ sessions[tg_hist[r].sname].mutations >= 1

\* C18 as stated: with exactly one path in the list, a modification is
\* followed at once by the activation of the session, inside the loop, and
\* the comment is the local name and the action.
C18_SingleActivatedPerItem ==
    \A r \in 1..Len(tg_hist) : \A c \in Modifications(r) :
        Len(prx_full_names) = 1 =>
            /\ ActivatedAtOnce(r, c)
            /\ calls[c + 1].a = PerItemComment

\* C18, amended: with exactly one path in the list, a modification is followed
\* at once by the activation of the session, inside the loop; the comment is
\* the local name and the action in a standalone run, and what the user types
\* at the prompt in an interactive run.
C18_SingleActivatedAtOnce ==
    \A r \in 1..Len(tg_hist) : \A c \in Modifications(r) :
        Len(prx_full_names) = 1 =>
            /\ ActivatedAtOnce(r, c)
            /\ calls[c + 1].a = (IF is_standalone THEN PerItemComment ELSE TypedComment)

\* a run with one path modified the service and activated its session
C18_Witness ==
    /\ pc = "t_done"
    /\ Len(prx_full_names) = 1
    /\ \E r \in 1..Len(tg_hist) :
          /\ Modifications(r) # {}
          /\ sessions[tg_hist[r].sname].state = "Activated"

\* ------------------------------------------------------------------ C19
\* the queries of run r that answered
Processed(r) == {g \in OpsIn(r, {"getRefs"}) : calls[g].b # "raised"}

\* run r left its loop: every path was queried and no call of the loop raised
LoopDone(r) ==
    /\ tg_hist[r].ended
    /\ Cardinality(Processed(r)) = Len(prx_full_names)
    /\ \A c \in OpsIn(r, ToggleOps) : calls[c].b # "raised"

\* the comment that carries the number of modifications
CountComment(n) ==
    IF workflow = "manage_proxy_services"
    THEN ToStr(n) \o " proxy services " \o actionTxt \o "d"
    ELSE "Monitoring of " \o ToStr(n) \o " proxy services is" \o actionTxt \o "d"

\* With more than one path: every activation of run r comes after the last
\* path was processed; a run that left its loop activated once if it modified
\* something, and else discarded its session without an activation.
Deferred(r) ==
    /\ \A c \in OpsIn(r, {"activateSession"}) :
          Cardinality({g \in Processed(r) : g < c}) = Len(prx_full_names)
    /\ LoopDone(r) =>
          LET acts == OpsIn(r, {"activateSession"})
              sess == sessions[tg_hist[r].sname]
          IN IF Modifications(r) # {}
             THEN /\ Cardinality(acts) = 1
                  /\ sess.state = (IF tg_hist[r].raised THEN "Discarded" ELSE "Activated")
                  /\ sess.mutations = Cardinality(Modifications(r))
             ELSE /\ acts = {}
                  /\ sess.state = "Discarded"

\* C19 as stated: with more than one path in the list no activation happens
\* before the last path was processed; then the session is activated once,
\* with a comment that carries the number of modifications, if there was a
\* modification, and discarded without activation if there was none.
C19_DeferredWithCount ==
    \A r \in 1..Len(tg_hist) :
        Len(prx_full_names) > 1 =>
            /\ Deferred(r)
            /\ \A c \in OpsIn(r, {"activateSession"}) :
                  calls[c].a = CountComment(Cardinality(Modifications(r)))

\* C19, amended: the same, and the comment carries the number of
\* modifications in a standalone run and is what the user types at the prompt
\* in an interactive run.
C19_DeferredActivation ==
    \A r \in 1..Len(tg_hist) :
        Len(prx_full_names) > 1 =>
            /\ Deferred(r)
            /\ \A c \in OpsIn(r, {"activateSession"}) :
                  calls[c].a = (IF is_standalone
                                THEN CountComment(Cardinality(Modifications(r)))
                                ELSE TypedComment)

\* a run with two paths modified both services and activated its session
C19_Witness ==
    /\ pc = "t_done"
    /\ Len(prx_full_names) > 1
    /\ \E r \in 1..Len(tg_hist) :
          /\ Cardinality(Modifications(r)) = 2
          /\ sessions[tg_hist[r].sname].state = "Activated"

\* ------------------------------------------------------------------ C20
\* run r raised after its session was created
RaisedInSession(r) == tg_hist[r].ended /\ tg_hist[r].raised /\ tg_hist[r].sname # 0

\* the calls of the except clause of run r
HandlerCalls(r) == (tg_hist[r].at + 1) .. RunTo(r)

\* the exception of run r was raised by the activation after the loop
RaisedAfterLoop(r) ==
    Len(prx_full_names) > 1 /\ calls[tg_hist[r].at].op = "activateSession"

\* the rows run r had appended when it raised: one per path not found and
\* one per reference read, but for the reference whose toggle call or
\* activation raised
RowsBefore(r) ==
    LET op == calls[tg_hist[r].at].op
        inLoop == op = "activateSession" /\ ~RaisedAfterLoop(r)
        notFound == {g \in OpsIn(r, {"getRefs"}) : calls[g].b = ""}
        reads == {c \in OpsIn(r, {"isEnabled", "isMonitoringEnabled"}) : c < tg_hist[r].at}
    IN Cardinality(notFound) + Cardinality(reads)
       - (IF op \in ToggleOps \/ inLoop THEN 1 ELSE 0)

\* The session of run r is not left open: it is discarded by the except
\* clause unless the loop had activated it; the rows are those appended before
\* the exception; what was rendered is these rows, sorted; the error is logged
\* last, after the discard and after the rendering.
HandledWithRows(r) ==
    LET rows == tg_hist[r].rows
        discards == {d \in HandlerCalls(r) : calls[d].op = "discardSession"}
    IN /\ sessions[tg_hist[r].sname].state \in {"Discarded", "Activated"}
       /\ sessions[tg_hist[r].sname].state = "Discarded" <=> discards # {}
       /\ sessions[tg_hist[r].sname].state = "Activated" =>
             \E a \in OpsIn(r, {"activateSession"}) : calls[a].b # "raised"
       /\ Len(rows) = RowsBefore(r)
       /\ r = Len(tg_hist) => report = rows
       /\ tg_hist[r].shown => tg_hist[r].rendered = SortRows(rows)
       /\ calls[RunTo(r)].op = "log_error" /\ calls[RunTo(r)].a = "error"
       /\ \A d \in discards :
             \A c \in HandlerCalls(r) : calls[c].op = "create_report" => d < c
       /\ \A c \in HandlerCalls(r) : calls[c].op = "create_report" => c < RunTo(r)

\* the except clause of run r rendered a report
Rendered(r) ==
    tg_hist[r].shown /\ \E c \in HandlerCalls(r) : calls[c].op = "create_report"

\* C20 as stated: when a toggle workflow raises after its session was created,
\* the session is discarded, the rows collected before are kept, the partial
\* report is rendered from them and the error is logged after the rendering.
C20_PartialReportRendered ==
    \A r \in 1..Len(tg_hist) :
        RaisedInSession(r) => HandledWithRows(r) /\ Rendered(r)

\* C20, amended: the same, and the partial report is rendered exactly when at
\* least one row was collected before the exception; with no row the except
\* clause renders nothing and only logs the error.
C20_PartialReportIfRows ==
    \A r \in 1..Len(tg_hist) :
        RaisedInSession(r) => HandledWithRows(r) /\ (Rendered(r) <=> tg_hist[r].rows # <<>>)

\* a run raised at its second path, after the row of the first was collected
C20_Witness ==
    /\ pc = "t_done"
    /\ \E r \in 1..Len(tg_hist) :
          /\ RaisedInSession(r)
          /\ Len(tg_hist[r].rows) = 1
          /\ Rendered(r)

\* ------------------------------------------------------------------ C21
\* C21: when a toggle workflow has returned, every session it created has
\* been activated or discarded, whatever the number of paths, the paths not
\* found, the services already in the state asked for and the services
\* changed.
C21_ToggleSessionsClosed ==
    \A r \in 1..Len(tg_hist) :
        (tg_hist[r].ended /\ tg_hist[r].sname # 0) =>
            sessions[tg_hist[r].sname].state \in {"Activated", "Discarded"}

\* two runs have returned, one with its session activated and one with its
\* session discarded
C21_Witness ==
    /\ pc = "t_done"
    /\ \E r, q \in 1..Len(tg_hist) :
          /\ tg_hist[r].sname # 0 /\ tg_hist[q].sname # 0
          /\ sessions[tg_hist[r].sname].state = "Activated"
          /\ sessions[tg_hist[q].sname].state = "Discarded"

\* ------------------------------------------------------------------ C22
Sorted(rows) == \A k \in 1..(Len(rows) - 1) : ~RowLess(rows[k + 1], rows[k])

Occurrences(rows, row) == Cardinality({k \in 1..Len(rows) : rows[k] = row})

\* the renderings of the combined report (not of the details of a project)
ReportCalls == {c \in 1..Len(calls) : calls[c].op = "create_report" /\ calls[c].b = "report"}

\* C22: undeploy_osb_prj renders the combined report exactly once, as its last
\* step, after every position of the batch was processed; what is rendered is
\* the rows of the report sorted by object type, then name, then status.
\* Before the workflow has ended, and when no name was entered at all, nothing
\* is rendered.
C22_ReportOnceSorted ==
    IF pc \in {"done", "returned"} /\ prj_names # <<>>
    THEN /\ Cardinality(ReportCalls) = 1
         /\ Len(calls) \in ReportCalls
         /\ Len(hist) = Len(prj_names)
         /\ Len(rendered) = Len(report)
         /\ \A k \in 1..Len(report) :
               Occurrences(rendered, report[k]) = Occurrences(report, report[k])
         /\ Sorted(rendered)
    ELSE workflow = "" => ReportCalls = {}

\* ------------------------------------------------------------------ C23
RollbackOps == {"discardSession", "undo", "cancelEdit"}

\* the log lines that carry the exception itself (the toggle workflows first
\* log that they are about to discard, which is not one of them)
ExceptionLogged(c) == calls[c].op = "log_error" /\ calls[c].a # "discarding"

\* C23: when an exception escapes a transaction, the session is discarded or
\* the edit rolled back before the exception is written to the log: no
\* discard, undo or cancelEdit is the next call after the log line of an
\* exception.
C23_RollbackBeforeLog ==
    \A c \in 1..(Len(calls) - 1) :
        ExceptionLogged(c) => calls[c + 1].op \notin RollbackOps

\* ------------------------------------------------------------------ C24
\* the extraction of a reference raised while get_prj_details resolved the
\* project at position j
ExtractionFailed(j) == hist[j].existed /\ CollectRows(hist[j].refs, <<>>).raised

\* C24: when the extraction fails for a reference of the project at position
\* j, the project is not deleted from the partial dependency set: no delete is
\* issued for it, its row is (OSB project, P, Failed), and no reaper is called
\* for it.
C24_ExtractionFailureFailsProject ==
    \A j \in 1..Len(hist) :
        (ExtractionFailed(j) /\ (j < i \/ pc \in {"done", "returned"})) =>
            /\ ~Called(j, {"delete"})
            /\ HasRow(j, PrjRow(j, "Failed"))
            /\ ~ReaperCalled(j)

\* ------------------------------------------------------------------ C25
\* no session was activated without a mutation
NoEmptyActivation ==
    \A k \in 1..Len(sessions) : sessions[k].state = "Activated" => sessions[k].mutations >= 1

\* C25: no session is activated with zero mutations, and when a workflow has
\* ended every session in which nothing was changed has been discarded.
C25_EmptySessionDiscarded ==
    /\ NoEmptyActivation
    /\ pc \in {"done", "returned", "t_done"} =>
          \A k \in 1..Len(sessions) :
              sessions[k].mutations = 0 => sessions[k].state = "Discarded"

\* ------------------------------------------------------------------ C26
\* the project at position j was deployed and owned no reference
EmptyProject(j) == hist[j].prj # "" /\ hist[j].existed /\ hist[j].refs = <<>>

\* the deletion at position j was declined at the prompt
Declined(j) ==
    \E c \in 1..Len(calls) : calls[c].i = j /\ calls[c].op = "prompt" /\ calls[c].b = "N"

\* C26: for a deployed project without references the workflow still creates
\* a session and, unless a call raises, the project disappeared meanwhile or
\* the user declines, deletes the project; it calls no reaper and reports no
\* queue or work-manager row for it.
C26_EmptyProjectDeletedNoCascade ==
    \A j \in 1..Len(hist) :
        (EmptyProject(j) /\ (j < i \/ pc = "done")) =>
            /\ Called(j, {"createSession"})
            /\ (hist[j].fault = "none" /\ ~Declined(j)) =>
                  /\ Called(j, {"delete"})
                  /\ HasRow(j, PrjRow(j, "Deleted"))
            /\ ~ReaperCalled(j)
            /\ ~ReaperRow(j)

\* a project without references was deleted and the workflow has ended
C26_Witness ==
    /\ pc = "done"
    /\ \E j \in 1..Len(hist) : EmptyProject(j) /\ HasRow(j, PrjRow(j, "Deleted"))

\* ------------------------------------------------------------------ C27
\* the calls of position j with one of the operations ops
CallsOf(j, ops) == {c \in 1..Len(calls) : calls[c].i = j /\ calls[c].op \in ops}

\* every call of before precedes every call of after, at position j
Precede(j, before, after) ==
    \A c \in CallsOf(j, before), d \in CallsOf(j, after) : c < d

\* Discovering, Confirming, Deleting come in this order and before any reaper
\* call, and a reaper is called only once the deletion was activated.
DeletedBeforeCascade(j) ==
    /\ Precede(j, {"get_prj_details"}, {"createSession"})
    /\ Precede(j, {"createSession"}, {"exists", "delete"})
    /\ \A c \in CallsOf(j, {"prompt"}), d \in CallsOf(j, {"delete"}) :
          calls[c].a = hist[j].prj => c < d
    /\ Precede(j, {"delete"}, {"activateSession"})
    /\ Precede(j, {"activateSession"}, {"delete_queue", "delete_work_manager"})
    /\ ReaperCalled(j) => CallsOf(j, {"activateSession"}) # {}

\* C27 as stated: for each project the states follow in the order Discovering,
\* Confirming, Deleting, CascadingWorkManagers, CascadingQueues: every
\* work-manager reaper call comes before any queue reaper call.
C27_WorkManagersBeforeQueues ==
    \A j \in 1..Len(hist) :
        /\ DeletedBeforeCascade(j)
        /\ Precede(j, {"delete_work_manager"}, {"delete_queue"})

\* C27, amended: the order is Discovering, Confirming, Deleting,
\* CascadingQueues, CascadingWorkManagers: every queue reaper call for the
\* project comes before any work-manager reaper call for it.
C27_QueuesBeforeWorkManagers ==
    \A j \in 1..Len(hist) :
        /\ DeletedBeforeCascade(j)
        /\ Precede(j, {"delete_queue_return"}, {"delete_work_manager"})

\* both reapers were called for one project
C27_Witness ==
    /\ pc = "done"
    /\ CallsOf(1, {"delete_queue"}) # {}
    /\ CallsOf(1, {"delete_work_manager"}) # {}

\* ------------------------------------------------------------------ C28
\* the names that are no work manager to delete
NoWorkManager == {"", "SBDefaultResponseWorkManager", "None", "default"}

\* the rows of the snapshot that name a work manager for the first time
FirstSeen(rows) ==
    {k \in 1..Len(rows) :
        /\ rows[k][4] \notin NoWorkManager
        /\ \A l \in 1..(k - 1) : rows[l][4] # rows[k][4]}

\* the distinct work-manager names of the snapshot, in first-seen order
ExpectedWmNames(rows) ==
    [n \in 1..Cardinality(FirstSeen(rows)) |->
        rows[CHOOSE k \in FirstSeen(rows) :
                 Cardinality({l \in FirstSeen(rows) : l <= k}) = n][4]]

\* a work-manager name was considered: the reaper was called for it, or its
\* deletion was declined
WmConsidered(e, j) ==
    /\ e.i = j
    /\ \/ e.op = "delete_work_manager"
       \/ e.op = "prompt" /\ e.b = "N" /\ e.a \notin SnapshotQueueNames(j) \cup DmqNames
                           /\ e.a # hist[j].prj

RECURSIVE ConsideredNames(_, _)
ConsideredNames(evs, j) ==
    IF evs = <<>> THEN <<>>
    ELSE IF WmConsidered(Head(evs), j)
         THEN <<Head(evs).a>> \o ConsideredNames(Tail(evs), j)
         ELSE ConsideredNames(Tail(evs), j)

\* C28: for a deleted project whose cascade has ended, the work-manager names
\* considered are exactly the distinct work-manager names of the snapshot, in
\* first-seen order, without the empty name and the sentinel names; the reaper
\* is called at most once per name; a name whose deletion was declined gets no
\* reaper call and exactly one (Work manager, name, Skipped) row.
C28_WorkManagerNames ==
    \A j \in 1..Len(hist) :
        (HasRow(j, PrjRow(j, "Deleted")) /\ (j < i \/ pc = "done")) =>
            LET names == ConsideredNames(calls, j)
            IN /\ names = ExpectedWmNames(hist[j].rows)
               /\ \A k \in 1..Len(names) :
                     LET called == {c \in CallsOf(j, {"delete_work_manager"}) :
                                       calls[c].a = names[k]}
                         declined == \E c \in CallsOf(j, {"prompt"}) :
                                        calls[c].a = names[k] /\ calls[c].b = "N"
                         skipped == CountRow(j, <<"Work manager", names[k], "Skipped">>)
                     IN /\ Cardinality(called) <= 1
                        /\ declined => called = {} /\ skipped = 1
                        /\ ~declined => Cardinality(called) = 1 /\ skipped = 0

\* ------------------------------------------------------------------ C29
WmCallsAt == {c \in 1..Len(calls) : calls[c].op = "delete_work_manager"}

\* the calls made inside the call of delete_work_manager that starts at c: up
\* to its return, or to the ERROR of line 229 when an exception left it
WmWindow(c) ==
    {d \in (c + 1)..Len(calls) :
        \A r \in (c + 1)..d :
            /\ calls[r].op # "delete_work_manager_return"
            /\ ~(calls[r].op = "log_error" /\ calls[r].a = "Work Managers")}

\* the destroy calls of the window for an object of type typ
DestroysOf(c, typ) == {d \in WmWindow(c) : calls[d].op = "destroy" /\ calls[d].a = typ}

\* C29: inside a call of delete_work_manager that found its work manager, the
\* max-thread constraint (if attached) is destroyed first, then the min-thread
\* constraint (if attached), then the work manager; each destroy directly
\* follows the removal of the references to the same object; save comes after
\* the destroy of the work manager, activate after save, and nothing is
\* destroyed after them.
C29_WmDestroyOrder ==
    \A c \in WmCallsAt :
        LET name == calls[c].a
            maxs == DestroysOf(c, "MaxThreadsConstraint")
            mins == DestroysOf(c, "MinThreadsConstraint")
            wms == DestroysOf(c, "WorkManager")
            saves == {d \in WmWindow(c) : calls[d].op = "save"}
            acts == {d \in WmWindow(c) : calls[d].op = "activate"}
        IN /\ \A d \in maxs \cup mins \cup wms :
                 /\ calls[d - 1].op = "removeReferencesToBean"
                 /\ calls[d - 1].a = calls[d].a /\ calls[d - 1].b = calls[d].b
           /\ \A x \in maxs, y \in mins \cup wms : x < y
           /\ \A x \in mins, y \in wms : x < y
           /\ Cardinality(maxs) <= 1 /\ Cardinality(mins) <= 1 /\ Cardinality(wms) <= 1
           /\ wms # {} =>
                 /\ \A d \in wms : calls[d].b = name
                 /\ (maxs # {}) = (WorkManagers[name].maxtc # "")
                 /\ (mins # {}) = (WorkManagers[name].mintc # "")
                 /\ \A d \in maxs : calls[d].b = WorkManagers[name].maxtc
                 /\ \A d \in mins : calls[d].b = WorkManagers[name].mintc
           /\ \A x \in saves : wms # {} /\ \A y \in wms : y < x
           /\ \A x \in acts : saves # {} /\ \A y \in saves : y < x
           /\ \A x \in saves \cup acts, y \in maxs \cup mins \cup wms : y < x

\* the deletion of a work manager with both constraints was committed
C29_Witness ==
    /\ pc = "done"
    /\ {<<"SelfTuning", "MaxThreadsConstraint", "W1max">>,
        <<"SelfTuning", "MinThreadsConstraint", "W1min">>,
        <<"SelfTuning", "WorkManager", "W1">>} \subseteq committed

\* ------------------------------------------------------------------ C30
QueueCallsAt == {c \in 1..Len(calls) : calls[c].op = "delete_queue"}

\* the calls made inside the call of delete_queue that starts at c: up to its
\* return, or to the ERROR of line 189 when an exception left it
QueueWindow(c) ==
    {d \in (c + 1)..Len(calls) :
        \A r \in (c + 1)..d :
            /\ calls[r].op # "delete_queue_return"
            /\ ~(calls[r].op = "log_error" /\ calls[r].a = "JMS queues")}

\* C30: inside a call of delete_queue, the destroy of a distributed or plain
\* queue of the name asked for comes after the read of its error destination;
\* an error destination is destroyed after the primary destination and before
\* save; and the call saves and activates at most once, activate after save.
C30_DmqReadBeforeDestroy ==
    \A c \in QueueCallsAt :
        LET name == calls[c].a
            destroys == {d \in QueueWindow(c) :
                           calls[d].op = "destroy" /\ calls[d].a \in {UDQ, "Queue"}}
            primary == {d \in destroys : calls[d].b = name}
            dmq == {d \in destroys : calls[d].b # name}
            saves == {d \in QueueWindow(c) : calls[d].op = "save"}
            acts == {d \in QueueWindow(c) : calls[d].op = "activate"}
        IN /\ \A d \in primary :
                 \E g \in QueueWindow(c) :
                     /\ g < d /\ calls[g].op = "getErrorDestination"
                     /\ calls[g].a = calls[d].a /\ calls[g].b = calls[d].b
                     /\ \A x \in primary : x < d => x < g
           /\ \A q \in dmq :
                 /\ calls[q].b \in DmqNames
                 /\ \E d \in primary : d < q
                 /\ \A x \in saves : q < x
           /\ \A x \in saves, d \in primary : x < d => \E a \in acts : x < a /\ a < d
           /\ \A x \in acts : \E y \in saves : y < x
           /\ Cardinality(acts) <= 1

\* a queue and its error destination were both deleted and committed
C30_Witness ==
    /\ pc = "done"
    /\ {<<"M1", UDQ, "Q1">>, <<"M1", UDQ, "D1">>} \subseteq committed

\* ------------------------------------------------------------------ C31
LookupOps ==
    {"lookupUniformDistributedQueue", "lookupQueue", "lookupForeignDestination"}

\* the latest call searched every messaging module and no lookup found the name
NoMatch ==
    /\ \A m \in 1..Len(JmsModules) :
          \E c \in InCall : /\ calls[c].op = "lookupUniformDistributedQueue"
                            /\ calls[c].a = JmsModules[m].name
    /\ \A c \in InCall : calls[c].op \in LookupOps => calls[c].b = ""

\* C31: a delete_queue call whose search matched nothing in any module returns
\* the one row (Queue, name, Not found), has destroyed, saved and activated
\* nothing, and called cancelEdit as its last remote call, so that no edit is
\* open and the edit holds no unsaved change when it returns.
C31_NotFoundCancelsEdit ==
    (JustReturned /\ NoMatch) =>
        /\ dq_hist.rows = << <<"Queue", dq_hist.name, "Not found">> >>
        /\ \A c \in InCall : calls[c].op \notin {"destroy", "save", "activate"}
        /\ committed = dq_hist.entry
        /\ calls[Len(calls) - 1].op = "cancelEdit"
        /\ ~editOpen /\ unsaved = {}

\* a call returned after it searched both modules for a name that is in none
C31_Witness ==
    /\ JustReturned /\ NoMatch
    /\ \E c \in InCall : calls[c].op = "lookupQueue" /\ calls[c].a = "M2"

\* ------------------------------------------------------------------ C32
ReadOps == {"isEnabled", "isMonitoringEnabled"}

\* the run of the toggle workflow that is under way or was the last to end
ThisRun == Len(tg_hist)

\* the flag read at c equals the state asked for
ReadEqual(c) == calls[c].b = FlagText(action = 1)

\* the reads of run r on the service named n that found (or did not find) the
\* state asked for
ReadsOf(r, n, equal) ==
    {c \in OpsIn(r, ReadOps) : calls[c].a = n /\ (ReadEqual(c) <=> equal)}

\* the rows of the current report for the service with URI u and status st
RowsWith(u, st) == {k \in 1..Len(report) : report[k][3] = u /\ report[k][2] = st}

Marked == Capitalize(actionTxt) \o "d*"
Fresh == Capitalize(actionTxt) \o "d"

\* C32: in a run of a toggle workflow that has a session, a flag read equal
\* to the state asked for (enabled for action 1, disabled for any other action,
\* as actionTxt has it) is not followed by a toggle call, and the service has
\* one row with the marked status per such read; a flag read different from
\* the state asked for is followed by the toggle call for that service; the
\* counter equals the number of toggle calls of the run that did not raise.
C32_AlreadyInStateNotCounted ==
    (ThisRun > 0 /\ tg_hist[ThisRun].sname # 0) =>
        LET r == ThisRun
        IN /\ \A c \in OpsIn(r, ReadOps) :
                 IF ReadEqual(c)
                 THEN c + 1 <= Len(calls) => calls[c + 1].op \notin ToggleOps
                 ELSE /\ c + 1 <= Len(calls)
                      /\ calls[c + 1].op \in ToggleOps
                      /\ calls[c + 1].a = calls[c].a
           /\ \A p \in Endpoints :
                 Cardinality(RowsWith(ServiceUri(p), Marked))
                     = Cardinality(ReadsOf(r, FullName(p), TRUE))
           /\ mod_prx_cnt = Cardinality(Modifications(r))
           /\ sessions[tg_hist[r].sname].mutations = mod_prx_cnt

\* ------------------------------------------------------------------ C33
\* the typed paths that name no proxy service of the registry
Unresolved == {p \in WildcardTokens : p \notin Endpoints /\ p # PathW}

\* the queries of run r that resolved to zero references
ZeroRefs(r) == {g \in OpsIn(r, {"getRefs"}) : calls[g].b = ""}

\* the queries of run r made before call g
QueriesBefore(r, g) == {h \in OpsIn(r, {"getRefs"}) : h < g}

NotFoundRows(name) ==
    {k \in 1..Len(report) : report[k] = <<name, "Not found", "N/A">>}

\* C33: in a run of a toggle workflow that has a session, the query of a path
\* that names no service resolves to zero references; the path has one row
\* (path, Not found, N/A) per such query; no read and no toggle call follows
\* the query, and when the path is not the last the next call is the query of
\* the next path; and a run whose paths all resolve to zero references has
\* discarded its session when it ends and has made no activation.
C33_NotFoundPath ==
    (ThisRun > 0 /\ tg_hist[ThisRun].sname # 0) =>
        LET r == ThisRun
        IN /\ \A g \in OpsIn(r, {"getRefs"}) :
                 calls[g].b # "raised" =>
                    (calls[g].b = "" <=> \E p \in Unresolved : calls[g].a = FullName(p))
           /\ \A p \in WildcardTokens :
                 Cardinality(NotFoundRows(FullName(p)))
                    = Cardinality({g \in ZeroRefs(r) : calls[g].a = FullName(p)})
           /\ \A g \in ZeroRefs(r) :
                 IF Cardinality(QueriesBefore(r, g)) + 1 < Len(prx_full_names)
                 THEN IF g = Len(calls) THEN pc = "t_loop"
                      ELSE calls[g + 1].op = "getRefs"
                 ELSE g < Len(calls) =>
                         calls[g + 1].op \in {"activateSession", "discardSession",
                                              "create_report"}
           /\ (tg_hist[r].ended /\ \A k \in 1..Len(prx_full_names) :
                                      prx_full_names[k] \in Unresolved) =>
                 /\ sessions[tg_hist[r].sname].state = "Discarded"
                 /\ sessions[tg_hist[r].sname].mutations = 0
                 /\ OpsIn(r, ToggleOps \cup {"activateSession"}) = {}

\* a run of two paths that name no service has ended with its two rows
C33_Witness ==
    /\ pc = "t_done"
    /\ ThisRun > 0 /\ tg_hist[ThisRun].sname # 0 /\ ~tg_hist[ThisRun].raised
    /\ Len(prx_full_names) = 2
    /\ \A k \in 1..2 : prx_full_names[k] \in Unresolved
    /\ Len(report) = 2
    /\ sessions[tg_hist[ThisRun].sname].state = "Discarded"

\* ------------------------------------------------------------------ C34
\* the activations of run r that did not raise
Activations(r) == {c \in OpsIn(r, {"activateSession"}) : calls[c].b # "raised"}

\* C34: in a run of a toggle workflow the session is activated at most once,
\* and every toggle call of the run is made before the activation.
C34_NoMutationAfterActivation ==
    \A r \in 1..Len(tg_hist) :
        /\ Cardinality(Activations(r)) <= 1
        /\ \A a \in Activations(r), c \in OpsIn(r, ToggleOps) : c < a

\* ------------------------------------------------------------------ C35
\* the kinds of object a row of the given type may refer to
KindsOf(type) ==
    CASE type = "Work manager" -> {"WorkManager"}
      [] type = "DMQ" -> {UDQ, "Queue"}
      [] OTHER -> {type}

\* the rows of the reapers in the report that say Deleted
DeletedRows ==
    {k \in 1..Len(report) : report[k][3] = "Deleted" /\ report[k][1] # "OSB project"}

QueueRowTypes == {UDQ, "Queue", "ForeignDestination", "DMQ"}

\* the destruction of the object of row k is committed
CommittedRow(k) ==
    \E bean \in committed : bean[3] = report[k][2] /\ bean[2] \in KindsOf(report[k][1])

\* C35: every Deleted row that delete_work_manager or delete_queue returned
\* refers to an object whose destruction was saved and activated; a call that
\* failed and cancelled its edit leaves no Deleted row for an object it did not
\* commit.
C35_DeletedRowsCommitted == \A k \in DeletedRows : CommittedRow(k)

\* ------------------------------------------------------------------ C36
\* the rows that run r rendered with the status of a fresh change
FreshRendered(r) ==
    {k \in 1..Len(tg_hist[r].rendered) : tg_hist[r].rendered[k][2] \in {"Enabled", "Disabled"}}

\* C36: when a run of a toggle workflow has rendered a row with the status of
\* a fresh change (Enabled or Disabled without the marker), the session of the
\* run was activated, so the change the row reports is committed; a run whose
\* session was discarded renders no such row.
C36_FreshRowsCommitted ==
    \A r \in 1..Len(tg_hist) :
        (tg_hist[r].ended /\ tg_hist[r].sname # 0 /\ FreshRendered(r) # {}) =>
            sessions[tg_hist[r].sname].state = "Activated"

\* ------------------------------------------------------------------ C37
\* the cancelEdit at x follows a declined confirmation
CancelledByDecline(x) ==
    /\ calls[x].op = "cancelEdit"
    /\ x > 1 /\ calls[x - 1].op = "prompt" /\ calls[x - 1].b = "N"

\* C37: inside a call of delete_queue every destroy is made while the edit
\* the call started is open, that is before any cancelEdit or activate of the
\* call; and after the edit was cancelled because the user declined, the call
\* makes no destroy and asks no further confirmation.
C37_NoDestroyAfterCancel ==
    \A c \in QueueCallsAt :
        /\ \A d \in QueueWindow(c) :
              calls[d].op = "destroy" =>
                  \A x \in QueueWindow(c) :
                      x < d => calls[x].op \notin {"cancelEdit", "activate"}
        /\ \A x \in QueueWindow(c) :
              CancelledByDecline(x) =>
                  \A y \in QueueWindow(c) :
                      y > x => calls[y].op \notin {"destroy", "prompt"}

\* ------------------------------------------------------------------ C38
ReaperCallsAt ==
    {c \in 1..Len(calls) : calls[c].op \in {"delete_queue", "delete_work_manager"}}

\* the session of position j was activated before call c, and the call that
\* activated it did not raise
ActivatedBefore(j, c) ==
    /\ \E a \in 1..(c - 1) :
          /\ calls[a].op = "activateSession" /\ calls[a].i = j
          /\ calls[a + 1].op # "log_error"
    /\ \E k \in SessionsOf(j) : sessions[k].state = "Activated"

\* the sessions created for the project of position j up to that position
\* (a session that is open now was open ever since it was created)
SessionsFor(j) ==
    {k \in 1..Len(sessions) : sessions[k].i <= j /\ sessions[k].prj = hist[j].prj}

\* C38: when a reaper is called for the project of a position, the session of
\* that position was activated before the call, and no session created for
\* that project is open.
C38_NoReaperWhileSessionOpen ==
    \A c \in ReaperCallsAt :
        /\ ActivatedBefore(calls[c].i, c)
        /\ \A k \in SessionsFor(calls[c].i) : sessions[k].state # "Open"

\* ------------------------------------------------------------------ C39
SessionOps == ToggleOps \cup {"createSession", "activateSession", "discardSession"}

IsSessionOp(e) == e.op \in SessionOps

\* create, mutate, activate, discard: the session operations of run r in order
SessionOpsOf(r) ==
    LET sel == SelectSeq(SubSeq(calls, tg_hist[r].from, RunTo(r)), IsSessionOp)
    IN [k \in 1..Len(sel) |-> IF sel[k].op \in ToggleOps THEN "mutate" ELSE sel[k].op]

\* the statuses of the rows of run r in order
RowStatuses(r) == [k \in 1..Len(tg_hist[r].rows) |-> tg_hist[r].rows[k][2]]

\* runs 1 and 2 are the two workflows, started on the same flags, both ended,
\* and no call raised
BothRan ==
    /\ Len(tg_hist) = 2 /\ tg_hist[2].ended
    /\ calls[tg_hist[1].from].op = "manage_proxy_services"
    /\ calls[tg_hist[2].from].op = "proxy_services_monitoring"
    /\ tg_hist[1].start = tg_hist[2].start
    /\ faults = 0

\* C39: given the same typed line, the same action and the same flags, and no
\* call raising, manage_proxy_services and proxy_services_monitoring make the
\* same sequence of session operations and report the same sequence of
\* row statuses.
C39_SameWorkflow ==
    BothRan => /\ SessionOpsOf(1) = SessionOpsOf(2)
               /\ RowStatuses(1) = RowStatuses(2)

\* ------------------------------------------------------------------ C40
\* the kind of destination a lookup finds
LookupKind(op) ==
    CASE op = "lookupUniformDistributedQueue" -> UDQ
      [] op = "lookupQueue" -> "Queue"
      [] OTHER -> "ForeignDestination"

\* the lookups of the latest call that found the name as a destination of kind
FoundAs(kind) ==
    {c \in InCall : /\ calls[c].op \in LookupOps
                    /\ calls[c].b = "found"
                    /\ LookupKind(calls[c].op) = kind}

\* the rows the latest call returned for the name with the given type
MatchRows(kind) ==
    {k \in 1..Len(dq_hist.rows) :
        /\ dq_hist.rows[k][1] = kind
        /\ dq_hist.rows[k][2] = dq_hist.name
        /\ dq_hist.rows[k][3] \in {"Deleted", "Skipped"}}

\* C40: when a call of delete_queue has returned, every Deleted or Skipped row
\* it returned for the name carries the kind as which a lookup of the call
\* found the name, and, unless a call raised, there is one such row per
\* lookup that found it.
C40_RowTypeIsKindFound ==
    JustReturned =>
        \A kind \in {UDQ, "Queue", "ForeignDestination"} :
            /\ MatchRows(kind) # {} => FoundAs(kind) # {}
            /\ ~RaisedInCall => Cardinality(MatchRows(kind)) = Cardinality(FoundAs(kind))

====
